---- MODULE Spec2Model ----
(***************************************************************************)
(* Model of src/src/models/model_t5.py: the relative-position bucketing,   *)
(* head pruning, and the attention / block / stack forward passes with the *)
(* key/value cache threaded through cached decoding steps.                 *)
(*                                                                         *)
(* Tensors are modelled symbolically.  A float is never computed: a hidden *)
(* state is a term recording what it was computed from, a bias entry is    *)
(* the bucket index whose learned value it holds together with the mask    *)
(* values added into it, and a projection matrix is the list of the rows   *)
(* it still holds.                                                         *)
(***************************************************************************)
EXTENDS Integers, Sequences, FiniteSets, TLC

VARIABLES bk, att, calls, cfg, ids, past, out, gen

vars == <<bk, att, calls, cfg, ids, past, out, gen>>
stackVars == <<cfg, ids, past, out, gen>>

\* The value of a variable that the specification at hand does not use.
Idle == [idle |-> TRUE]

\* An optional argument: None, or the value v.
None == <<>>
Some(v) == <<v>>
OptionalOf(S) == {None} \cup {Some(x) : x \in S}

(***************************************************************************)
(* Bounds of the bucketing inputs.                                         *)
(***************************************************************************)
MaxBuckets == 8
MaxDist == 12
MaxRel == 14

RECURSIVE Pow(_, _)
Pow(b, e) == IF e = 0 THEN 1 ELSE b * Pow(b, e - 1)

Min(a, b) == IF a < b THEN a ELSE b
Max(a, b) == IF a > b THEN a ELSE b
Abs(a) == IF a < 0 THEN -a ELSE a

(***************************************************************************)
(* (torch.log(n.float() / max_exact) / math.log(max_distance / max_exact)  *)
(*    * K).to(torch.long) for max_exact <= n < max_distance: the largest j *)
(* with (max_distance/max_exact)^j <= (n/max_exact)^K, in integers.        *)
(***************************************************************************)
LogTerm(n, max_exact, max_distance, K) ==
    CHOOSE j \in 0..K :
        /\ Pow(max_distance, j) * Pow(max_exact, K - j) <= Pow(n, K)
        /\ \A i \in (j + 1)..K :
              Pow(max_distance, i) * Pow(max_exact, K - i) > Pow(n, K)

(***************************************************************************)
(* The real value of the logarithmic term is an integer >= 1: here the     *)
(* float32 quotient may land just below the integer, and the cast          *)
(* truncates.                                                              *)
(***************************************************************************)
ExactBoundary(n, max_exact, max_distance, K) ==
    \E j \in 1..K : Pow(max_distance, j) * Pow(max_exact, K - j) = Pow(n, K)

(***************************************************************************)
(* Line 254: ret += (n < 0) * num_buckets, in bidirectional mode, with     *)
(* num_buckets already halved.                                             *)
(***************************************************************************)
SignHalf_NoOffset(bidirectional, n, nb) == 0

SignHalf(bidirectional, n, nb) ==
    IF bidirectional /\ n < 0 THEN nb ELSE 0

(***************************************************************************)
(* Lines 265-268: val_if_large for an element with n >= max_exact.  rnd in *)
(* {0,1} is the outcome of the float rounding at an exact boundary.  For   *)
(* n >= max_distance the logarithmic term is at least K up to rounding,    *)
(* and the clamp gives nb - 1 either way.                                  *)
(***************************************************************************)
LogValue(n, max_exact, max_distance, K, rnd) ==
    IF n >= max_distance THEN K
    ELSE LogTerm(n, max_exact, max_distance, K)
           - (IF ExactBoundary(n, max_exact, max_distance, K) THEN rnd ELSE 0)

val_if_large_NoClamp(n, max_exact, max_distance, nb, rnd) ==
    max_exact + LogValue(n, max_exact, max_distance, nb - max_exact, rnd)

val_if_large_NoMaxExact(n, max_exact, max_distance, nb, rnd) ==
    Min(LogValue(n, max_exact, max_distance, nb - max_exact, rnd), nb - 1)

val_if_large_ScaleByNumBuckets(n, max_exact, max_distance, nb, rnd) ==
    Min(max_exact + LogValue(n, max_exact, max_distance, nb, rnd), nb - 1)

val_if_large(n, max_exact, max_distance, nb, rnd) ==
    Min(max_exact + LogValue(n, max_exact, max_distance, nb - max_exact, rnd), nb - 1)

(***************************************************************************)
(* T5Attention._relative_position_bucket on one element of the tensor.     *)
(* torch.where(is_small, n, val_if_large) keeps val_if_large only where    *)
(* n >= max_exact, so it is evaluated only there.                          *)
(***************************************************************************)
_relative_position_bucket(relative_position, bidirectional, num_buckets, max_distance, rnd) ==
    LET n0 == -relative_position
        nb == IF bidirectional THEN num_buckets \div 2 ELSE num_buckets
        ret0 == SignHalf(bidirectional, n0, nb)
        n == IF bidirectional THEN Abs(n0) ELSE Max(n0, 0)
        max_exact == nb \div 2
        is_small == n < max_exact
    IN ret0 + (IF is_small THEN n ELSE val_if_large(n, max_exact, max_distance, nb, rnd))

(***************************************************************************)
(* The parameters the function is defined for: max_exact >= 1 (otherwise   *)
(* line 266 divides by zero) and max_distance > max_exact (otherwise the   *)
(* denominator math.log(max_distance / max_exact) is not positive).        *)
(***************************************************************************)
MaxExactOf(bidirectional, num_buckets) ==
    (IF bidirectional THEN num_buckets \div 2 ELSE num_buckets) \div 2

ValidBucketParams(bidirectional, num_buckets, max_distance) ==
    /\ MaxExactOf(bidirectional, num_buckets) >= 1
    /\ max_distance > MaxExactOf(bidirectional, num_buckets)

(***************************************************************************)
(* SpecBucket: the bucketing function applied to a two-element tensor.     *)
(***************************************************************************)
BucketInit ==
    \E a \in -MaxRel..MaxRel, b \in -MaxRel..MaxRel, bid \in BOOLEAN,
       nb \in 2..MaxBuckets, md \in 2..MaxDist :
        /\ ValidBucketParams(bid, nb, md)
        /\ bk = [relative_position |-> <<a, b>>, bidirectional |-> bid,
                 num_buckets |-> nb, max_distance |-> md, ret |-> <<>>]
        /\ att = Idle
        /\ calls = <<>>
        /\ cfg = Idle /\ ids = <<>> /\ past = <<>> /\ out = Idle /\ gen = Idle

\* n as lines 251-257 leave it: the value the float computation is applied to.
BucketN(relative_position, bidirectional) ==
    IF bidirectional THEN Abs(relative_position) ELSE Max(-relative_position, 0)

\* Equal elements go through the same float computation and round alike.
BucketCall ==
    /\ bk.ret = <<>>
    /\ \E r1 \in 0..1, r2 \in 0..1 :
         /\ BucketN(bk.relative_position[1], bk.bidirectional)
               = BucketN(bk.relative_position[2], bk.bidirectional) => r1 = r2
         /\ bk' = [bk EXCEPT !.ret =
                  <<_relative_position_bucket(bk.relative_position[1], bk.bidirectional,
                                              bk.num_buckets, bk.max_distance, r1),
                    _relative_position_bucket(bk.relative_position[2], bk.bidirectional,
                                              bk.num_buckets, bk.max_distance, r2)>>]
    /\ UNCHANGED <<att, calls, stackVars>>

BucketNext == BucketCall

SpecBucket == BucketInit /\ [][BucketNext]_vars

(***************************************************************************)
(* Properties of the bucketing function.                                   *)
(***************************************************************************)
BucketDone == bk.ret # <<>>

\* C6: for every relative position, both directions and every valid
\* num_buckets / max_distance, the returned bucket index lies in
\* [0, num_buckets).
C6_BucketInRange ==
    BucketDone => \A i \in 1..2 : bk.ret[i] \in 0..(bk.num_buckets - 1)

\* The clamp is what keeps the result in range: an offset at or beyond
\* max_distance lands on the last bucket.
C6_Witness ==
    /\ BucketDone
    /\ Abs(bk.relative_position[1]) >= bk.max_distance
    /\ bk.ret[1] = bk.num_buckets - 1

SameSign(a, b) == a * b >= 0

\* C7 as stated: the sign of the offset is fixed in bidirectional mode
\* only; the bucket index is non-decreasing in the absolute distance.
C7_Original ==
    (/\ BucketDone
     /\ bk.bidirectional => SameSign(bk.relative_position[1], bk.relative_position[2])
     /\ Abs(bk.relative_position[1]) <= Abs(bk.relative_position[2]))
    => bk.ret[1] <= bk.ret[2]

\* C7 (amended): for a fixed direction and a fixed sign of the offset, in
\* either mode, the bucket index is non-decreasing in the absolute relative
\* distance.
C7_BucketMonotone ==
    (/\ BucketDone
     /\ SameSign(bk.relative_position[1], bk.relative_position[2])
     /\ Abs(bk.relative_position[1]) <= Abs(bk.relative_position[2]))
    => bk.ret[1] <= bk.ret[2]

\* Two offsets of the same sign in the logarithmic region with strictly
\* increasing buckets.
C7_Witness ==
    /\ BucketDone
    /\ bk.relative_position[1] < 0
    /\ bk.relative_position[2] < bk.relative_position[1]
    /\ bk.ret[1] >= MaxExactOf(bk.bidirectional, bk.num_buckets)
    /\ bk.ret[1] < bk.ret[2]

\* C8: in bidirectional mode, for every magnitude d >= 1 the offsets +d and
\* -d are mapped to different buckets.
C8_OppositeSignsDiffer ==
    (/\ BucketDone
     /\ bk.bidirectional
     /\ bk.relative_position[1] >= 1
     /\ bk.relative_position[2] = -bk.relative_position[1])
    => bk.ret[1] # bk.ret[2]

C8_Witness ==
    /\ BucketDone
    /\ bk.bidirectional
    /\ bk.relative_position[1] >= bk.max_distance
    /\ bk.relative_position[2] = -bk.relative_position[1]
    /\ bk.ret[1] = bk.ret[2] + bk.num_buckets \div 2

(***************************************************************************)
(* The piecewise mapping of spec section 4.1 for one half: offsets below   *)
(* max_exact map to themselves, larger ones logarithmically with K steps,  *)
(* clamped to last; offsets >= max_distance map to last.  The floor is the *)
(* cast of a float32 value, which may fall one short where the logarithmic *)
(* term is exactly an integer: both outcomes are listed.                   *)
(***************************************************************************)
Piecewise(offset, max_exact, K, last, max_distance) ==
    IF offset < max_exact THEN {offset}
    ELSE IF offset >= max_distance THEN {last}
    ELSE LET j == LogTerm(offset, max_exact, max_distance, K)
         IN {Min(max_exact + j, last)} \cup
            (IF ExactBoundary(offset, max_exact, max_distance, K)
             THEN {Min(max_exact + j - 1, last)} ELSE {})

\* The mapping with max_exact = num_buckets/4 and scale num_buckets/2 -
\* max_exact, as the spec states it.  In bidirectional mode each half has
\* num_buckets/2 buckets; in unidirectional mode "the last bucket" is read
\* either as the last of a half or as the last of all, and both readings
\* are admitted.
SpecQuarterMapping(rel, bidirectional, num_buckets, max_distance) ==
    LET half == num_buckets \div 2
        me == num_buckets \div 4
        offset == IF bidirectional THEN Abs(rel) ELSE Max(-rel, 0)
        base == IF bidirectional /\ rel > 0 THEN half ELSE 0
    IN {base + v : v \in Piecewise(offset, me, half - me, half - 1, max_distance)}
       \cup (IF bidirectional THEN {}
             ELSE Piecewise(offset, me, half - me, num_buckets - 1, max_distance))

\* The mapping of unidirectional mode: one range of num_buckets buckets,
\* max_exact = num_buckets/2.
UnidirectionalMapping(rel, num_buckets, max_distance) ==
    LET me == num_buckets \div 2
    IN Piecewise(Max(-rel, 0), me, num_buckets - me, num_buckets - 1, max_distance)

\* C9 as stated: in both modes the result is the spec's piecewise mapping
\* with max_exact = num_buckets/4 (wherever that mapping is defined:
\* num_buckets/4 >= 1 and max_distance above it).
C9_Original ==
    (/\ BucketDone
     /\ bk.num_buckets \div 4 >= 1
     /\ bk.max_distance > bk.num_buckets \div 4) =>
        \A i \in 1..2 :
            bk.ret[i] \in SpecQuarterMapping(bk.relative_position[i], bk.bidirectional,
                                             bk.num_buckets, bk.max_distance)

\* C9 (amended): in bidirectional mode the result is the spec's piecewise
\* mapping with max_exact = num_buckets/4 within each half of num_buckets/2
\* buckets (positive offsets shifted by num_buckets/2); in unidirectional
\* mode it is the same piecewise mapping over all num_buckets buckets with
\* max_exact = num_buckets/2, scale num_buckets - max_exact and positive
\* offsets treated as 0.
C9_BucketPiecewise ==
    BucketDone =>
        \A i \in 1..2 :
            bk.ret[i] \in
                IF bk.bidirectional
                THEN SpecQuarterMapping(bk.relative_position[i], TRUE,
                                        bk.num_buckets, bk.max_distance)
                ELSE UnidirectionalMapping(bk.relative_position[i],
                                           bk.num_buckets, bk.max_distance)

\* A unidirectional call in the logarithmic region, strictly between
\* max_exact and the last bucket, where the spec's quarter mapping differs.
C9_Witness ==
    /\ BucketDone
    /\ ~bk.bidirectional
    /\ -bk.relative_position[1] < bk.max_distance
    /\ bk.ret[1] > bk.num_buckets \div 2
    /\ bk.ret[1] < bk.num_buckets - 1
    /\ bk.ret[1] \notin SpecQuarterMapping(bk.relative_position[1], FALSE,
                                           bk.num_buckets, bk.max_distance)

(***************************************************************************)
(* Head pruning of one T5Attention module.                                 *)
(***************************************************************************)
MaxHeads == 3
MaxDkv == 2
MaxCalls == 3

\* 0-based positions 0..n-1 as a sequence.
Range0(n) == [i \in 1..n |-> i - 1]

\* transformers.modeling_utils.find_pruneable_heads_and_indices: the heads
\* not pruned yet, and the flattened positions of the rows that stay, each
\* head moved down by the number of already pruned heads before it.
find_pruneable_heads_and_indices(heads, n_heads, head_size, already_pruned_heads) ==
    LET hs == heads \ already_pruned_heads
        moved == {h - Cardinality({p \in already_pruned_heads : p < h}) : h \in hs}
        Keep(pos) == (pos \div head_size) \notin moved
    IN [heads |-> hs, index |-> SelectSeq(Range0(n_heads * head_size), Keep)]

\* transformers.modeling_utils.prune_linear_layer: index_select of the
\* weight along the pruned dimension; w lists the rows (columns for dim=1)
\* the layer holds.
prune_linear_layer(w, index) == [i \in 1..Len(index) |-> w[index[i] + 1]]

\* T5Attention.__init__: the module as constructed.
NewAttention(num_heads, d_kv, has_relative_attention_bias) ==
    [n_heads |-> num_heads, d_kv |-> d_kv, inner_dim |-> num_heads * d_kv,
     q |-> Range0(num_heads * d_kv), k |-> Range0(num_heads * d_kv),
     v |-> Range0(num_heads * d_kv), o |-> Range0(num_heads * d_kv),
     has_relative_attention_bias |-> has_relative_attention_bias,
     relative_attention_bias_heads |->
         IF has_relative_attention_bias THEN num_heads ELSE 0,
     num_heads |-> num_heads,
     pruned_heads |-> {}]

prune_heads_NotRecorded(a, heads) ==
    IF Cardinality(heads) = 0 THEN a
    ELSE LET f == find_pruneable_heads_and_indices(heads, a.n_heads, a.d_kv, a.pruned_heads)
         IN [a EXCEPT !.q = prune_linear_layer(a.q, f.index),
                      !.k = prune_linear_layer(a.k, f.index),
                      !.v = prune_linear_layer(a.v, f.index),
                      !.o = prune_linear_layer(a.o, f.index),
                      !.n_heads = a.n_heads - Cardinality(f.heads),
                      !.inner_dim = a.d_kv * (a.n_heads - Cardinality(f.heads))]

\* Line 221 counting the heads asked for, not the heads newly pruned.
prune_heads_CountsRequested(a, heads) ==
    IF Cardinality(heads) = 0 THEN a
    ELSE LET f == find_pruneable_heads_and_indices(heads, a.n_heads, a.d_kv, a.pruned_heads)
         IN [a EXCEPT !.q = prune_linear_layer(a.q, f.index),
                      !.k = prune_linear_layer(a.k, f.index),
                      !.v = prune_linear_layer(a.v, f.index),
                      !.o = prune_linear_layer(a.o, f.index),
                      !.n_heads = a.n_heads - Cardinality(heads),
                      !.inner_dim = a.d_kv * (a.n_heads - Cardinality(heads)),
                      !.pruned_heads = a.pruned_heads \cup f.heads]

\* T5Attention.prune_heads.
prune_heads(a, heads) ==
    IF Cardinality(heads) = 0 THEN a
    ELSE LET f == find_pruneable_heads_and_indices(heads, a.n_heads, a.d_kv, a.pruned_heads)
         IN [a EXCEPT !.q = prune_linear_layer(a.q, f.index),
                      !.k = prune_linear_layer(a.k, f.index),
                      !.v = prune_linear_layer(a.v, f.index),
                      !.o = prune_linear_layer(a.o, f.index),
                      !.n_heads = a.n_heads - Cardinality(f.heads),
                      !.inner_dim = a.d_kv * (a.n_heads - Cardinality(f.heads)),
                      !.pruned_heads = a.pruned_heads \cup f.heads]

\* T5Attention.compute_bias, lines 283-285: the head dimension of the bias
\* is the embedding dimension of relative_attention_bias.
BiasHeadDim(a) == a.relative_attention_bias_heads

PruneInit ==
    /\ \E nh \in 1..MaxHeads, dkv \in 1..MaxDkv, rab \in BOOLEAN :
          att = NewAttention(nh, dkv, rab)
    /\ calls = <<>>
    /\ bk = Idle
    /\ cfg = Idle /\ ids = <<>> /\ past = <<>> /\ out = Idle /\ gen = Idle

\* One call of prune_heads on head indices of the module as constructed.
PruneHeads ==
    /\ Len(calls) < MaxCalls
    /\ \E heads \in SUBSET (0..(att.num_heads - 1)) :
          /\ att' = prune_heads(att, heads)
          /\ calls' = Append(calls, heads)
    /\ UNCHANGED <<bk, stackVars>>

PruneNext == PruneHeads

SpecPrune == PruneInit /\ [][PruneNext]_vars

\* C10: a call prune_heads(H) that directly follows a call prune_heads(H)
\* with the same H leaves n_heads, inner_dim, pruned_heads and the q/k/v/o
\* projections as the first call left them.
C10_PruneIdempotent ==
    [][(/\ Len(calls) >= 1
        /\ Len(calls') = Len(calls) + 1
        /\ calls'[Len(calls')] = calls[Len(calls)])
       => att' = att]_vars

\* The same non-empty H pruned twice in a row, with heads actually removed.
C10_Witness ==
    /\ Len(calls) >= 2
    /\ calls[Len(calls)] = calls[Len(calls) - 1]
    /\ calls[Len(calls)] # {}
    /\ calls[Len(calls)] \subseteq att.pruned_heads
    /\ att.n_heads < att.num_heads
    /\ att.n_heads > 0

\* The distinct head indices the calls so far asked to prune.
RECURSIVE PrunedSoFar(_)
PrunedSoFar(cs) == IF cs = <<>> THEN {} ELSE cs[1] \cup PrunedSoFar(Tail(cs))

\* C11: after any sequence of prune_heads calls, n_heads is the initial
\* head count minus the number of distinct head indices pruned so far,
\* that number is |pruned_heads|, inner_dim is n_heads * d_kv, and the
\* q/k/v/o projections hold inner_dim rows.
C11_HeadCount ==
    att # Idle =>
        /\ att.pruned_heads = PrunedSoFar(calls)
        /\ att.n_heads = att.num_heads - Cardinality(PrunedSoFar(calls))
        /\ att.inner_dim = att.n_heads * att.d_kv
        /\ Len(att.q) = att.inner_dim /\ Len(att.k) = att.inner_dim
        /\ Len(att.v) = att.inner_dim /\ Len(att.o) = att.inner_dim

\* Two calls with overlapping head sets: three indices asked for, two
\* distinct.
C11_Witness ==
    /\ att # Idle
    /\ Len(calls) = 2
    /\ Cardinality(calls[1]) = 2 /\ Cardinality(calls[2]) = 1
    /\ calls[2] \subseteq calls[1]
    /\ att.n_heads = att.num_heads - 2
    /\ att.n_heads >= 1

(***************************************************************************)
(* Attention, block and stack forward passes.                              *)
(*                                                                         *)
(* The batch has one row and the head axis is left out.  An optional       *)
(* tuple or tensor that is None in the code is the empty sequence <<>>.    *)
(* A hidden state is a sequence of terms, one per position:                *)
(*   [kind |-> "emb", tok]              embedding of a token               *)
(*   [kind |-> "enc", pos]              encoder output at a position       *)
(*   [kind |-> "self", layer, x, ctx]   x + SelfAttention(norm(x))         *)
(*   [kind |-> "cross", layer, x, ctx]  x + EncDecAttention(norm(x))       *)
(*   [kind |-> "ff", layer, x]          x + DenseReluDense(norm(x))        *)
(*   [kind |-> "final", x]              final_layer_norm(x)                *)
(* where ctx lists, for the keys the softmax gives a non-zero weight, the  *)
(* source of key and value and the bias bucket of the score.  A bias entry  *)
(* is                                                                      *)
(* [b, m, c, sm]: the bucket of the learned value, the sum of the mask     *)
(* values added, how many masks were added, and whether it went through    *)
(* the softmax (an attention weight).                                      *)
(***************************************************************************)
relative_attention_num_buckets == 32
DefaultMaxDistance == 128
MaskedValue == -10000
NoLen == -1

BiasEntry(b) == [b |-> b, m |-> 0, c |-> 0, sm |-> FALSE]

\* T5Attention.compute_bias: no offset of the model reaches max_exact, so
\* the rounding argument of the bucketing is immaterial here.
compute_bias(is_decoder, qlen, klen) ==
    [i \in 1..qlen |-> [j \in 1..klen |->
        BiasEntry(_relative_position_bucket((j - 1) - (i - 1), ~is_decoder,
                                            relative_attention_num_buckets,
                                            DefaultMaxDistance, 0))]]

\* Row i of a tensor that broadcasts over the query axis.
Row(t, i) == IF Len(t) = 1 THEN t[1] ELSE t[i]

\* position_bias + mask (line 368), broadcast over the query axis.
AddMask_Skipped(position_bias, mask) == position_bias

AddMask(position_bias, mask) ==
    [i \in 1..Max(Len(position_bias), Len(mask)) |->
        [j \in 1..Len(Row(position_bias, i)) |->
            [Row(position_bias, i)[j] EXCEPT !.m = @ + Row(mask, i)[j], !.c = @ + 1]]]

\* The two tensors broadcast against each other.
Broadcastable(a, b) ==
    /\ Len(a) = Len(b) \/ Len(a) = 1 \/ Len(b) = 1
    /\ \A i \in 1..Max(Len(a), Len(b)) : Len(Row(a, i)) = Len(Row(b, i))

\* self.k(x) / self.v(x) for each position of x.
Project(p, x) == [i \in 1..Len(x) |-> [p |-> p, src |-> x[i]]]

AttnError(e) ==
    [err |-> e, outputs |-> <<>>, scores_bias |-> <<>>, computed |-> FALSE,
     projected |-> FALSE]

\* softmax(scores) @ v for query i: the keys whose score holds no mask
\* value.  The value's source is written out only where it differs from
\* the key's.
Context(input, k, v, position_bias, i) ==
    LET visible == SelectSeq([j \in 1..Len(k) |-> j],
                             LAMBDA j : Row(position_bias, i)[j].m >= 0)
    IN [x |-> input[i],
        ctx |-> [t \in 1..Len(visible) |->
                    LET kj == k[visible[t]]
                        vj == v[visible[t]]
                    IN [kp |-> kj.p, vp |-> vj.p, src |-> kj.src,
                        vsrc |-> IF vj.src = kj.src THEN <<>> ELSE <<vj.src>>,
                        b |-> Row(position_bias, i)[visible[t]].b]]]

\* Line 365: position_bias[:, :, -1:, :], the row of the newest query.
LastQueryRow_First(position_bias) == <<position_bias[1]>>

LastQueryRow(position_bias) == <<position_bias[Len(position_bias)]>>

\* T5Attention.forward, lines 350-389, given k and v.
AttentionScores(A, input, mask, position_bias, past_key_value_state, real_qlen, klen, k, v, projected, use_cache, output_attentions) ==
    LET qlen == Len(input)
        present_key_value_state ==
            IF A.is_decoder /\ use_cache THEN <<k, v>> ELSE <<>>
        computed == position_bias = <<>>
        bias0 == compute_bias(A.is_decoder, real_qlen, klen)
        bias1 == IF past_key_value_state # <<>> THEN LastQueryRow(bias0) ELSE bias0
        maskOK == mask = <<>> \/ Broadcastable(bias1, mask)
        bias2 == IF mask # <<>> THEN AddMask(bias1, mask) ELSE bias1
        \* Lines 371-389, with position_bias as lines 355-368 leave it.
        Scored(pb) ==
            LET scoresOK == /\ Len(pb) = qlen \/ Len(pb) = 1
                            /\ \A i \in 1..qlen : Len(Row(pb, i)) = Len(k)
                weights == [i \in 1..qlen |->
                               [j \in 1..Len(k) |-> [Row(pb, i)[j] EXCEPT !.sm = TRUE]]]
                context == [i \in 1..qlen |-> Context(input, k, v, pb, i)]
            IN IF ~scoresOK THEN AttnError("shape")
               ELSE [err |-> "",
                     outputs |-> <<context, present_key_value_state>>
                                 \o (IF output_attentions THEN <<weights>> ELSE <<>>)
                                 \o (IF A.has_relative_attention_bias THEN <<pb>> ELSE <<>>),
                     scores_bias |-> pb, computed |-> computed, projected |-> projected]
    IN IF computed /\ ~A.has_relative_attention_bias
       THEN AttnError("No position_bias provided and no weights to compute position_bias")
       ELSE IF computed /\ ~maskOK THEN AttnError("shape")
       ELSE Scored(IF computed THEN bias2 ELSE position_bias)

\* Lines 345-346: torch.cat([k_, k], dim=2) of self-attention with a cache.
CatPast_NewFirst(cached, new) == new \o cached

CatPast(cached, new) == cached \o new

\* Line 348: cross-attention with a cache takes k, v from the cache.
FromPast(cached, kv, p) == cached

\* Lines 333-341: whether self.k and self.v are applied: to the input in
\* self-attention, to kv in cross-attention when no cache is given.
ProjectsKeyValue_Always(kv, hasPast) == TRUE

ProjectsKeyValue(kv, hasPast) == kv = <<>> \/ ~hasPast

\* T5Attention.forward.  A is the module: [is_decoder,
\* has_relative_attention_bias]; kv = <<>> is self-attention.
T5Attention_forward(A, input, mask, kv, position_bias, past_key_value_state, query_length, use_cache, output_attentions) ==
    LET qlen == Len(input)
        hasPast == past_key_value_state # <<>>
        real_qlen == IF hasPast
                     THEN (IF query_length = NoLen
                           THEN qlen + Len(past_key_value_state[1])
                           ELSE query_length)
                     ELSE qlen
        klen == IF kv = <<>> THEN real_qlen ELSE Len(kv)
        projected == ProjectsKeyValue(kv, hasPast)
        knew == IF ~projected THEN <<>>
                ELSE IF kv = <<>> THEN Project("k", input) ELSE Project("k", kv)
        vnew == IF ~projected THEN <<>>
                ELSE IF kv = <<>> THEN Project("v", input) ELSE Project("v", kv)
        k == IF hasPast
             THEN (IF kv = <<>> THEN CatPast(past_key_value_state[1], knew)
                   ELSE FromPast(past_key_value_state[1], kv, "k"))
             ELSE knew
        v == IF hasPast
             THEN (IF kv = <<>> THEN CatPast(past_key_value_state[2], vnew)
                   ELSE FromPast(past_key_value_state[2], kv, "v"))
             ELSE vnew
    IN IF hasPast /\ ~A.is_decoder THEN AttnError("Encoder cannot cache past key value states")
       ELSE IF hasPast /\ Len(past_key_value_state) # 2
            THEN AttnError("past_key_value_state should have 2 past states")
       ELSE AttentionScores(A, input, mask, position_bias, past_key_value_state,
                            real_qlen, klen, k, v, projected, use_cache, output_attentions)

\* t[from:] of a Python tuple (from is 0-based).
TupleFrom(t, from) == SubSeq(t, from + 1, Len(t))

\* hidden_states + dropout(y) of an attention sub-layer, dropout inactive.
Residual(kind, layer, hidden_states, y) ==
    [i \in 1..Len(hidden_states) |->
        [kind |-> kind, layer |-> layer, x |-> hidden_states[i], ctx |-> y[i].ctx]]

\* T5LayerSelfAttention.forward.
T5LayerSelfAttention_forward(A, layer, hidden_states, attention_mask, position_bias, past_key_value_state, use_cache, output_attentions) ==
    LET Outputs(attention_output) ==
            IF attention_output.err # "" THEN attention_output
            ELSE [attention_output EXCEPT !.outputs =
                     <<Residual("self", layer, hidden_states, attention_output.outputs[1])>>
                     \o TupleFrom(attention_output.outputs, 1)]
    IN Outputs(T5Attention_forward(A, hidden_states, attention_mask, <<>>, position_bias,
                                   past_key_value_state, NoLen, use_cache,
                                   output_attentions))

\* T5LayerCrossAttention.forward.
T5LayerCrossAttention_forward(A, layer, hidden_states, kv, attention_mask, position_bias, past_key_value_state, use_cache, query_length, output_attentions) ==
    LET Outputs(attention_output) ==
            IF attention_output.err # "" THEN attention_output
            ELSE [attention_output EXCEPT !.outputs =
                     <<Residual("cross", layer, hidden_states, attention_output.outputs[1])>>
                     \o TupleFrom(attention_output.outputs, 1)]
    IN Outputs(T5Attention_forward(A, hidden_states, attention_mask, kv, position_bias,
                                   past_key_value_state, query_length, use_cache,
                                   output_attentions))

\* T5LayerFF.forward.
T5LayerFF_forward(layer, hidden_states) ==
    [i \in 1..Len(hidden_states) |-> [kind |-> "ff", layer |-> layer, x |-> hidden_states[i]]]

BlockError(e) == [err |-> e, outputs |-> <<>>, tr |-> <<>>]

\* What one layer was given and what its attentions did, for the properties.
BlockTrace(position_bias, encoder_decoder_position_bias, sa, ca, hasCross) ==
    [position_bias_in |-> position_bias,
     encoder_decoder_position_bias_in |-> encoder_decoder_position_bias,
     self_scores_bias |-> sa.scores_bias,
     self_computed |-> sa.computed,
     has_cross |-> hasCross,
     cross_scores_bias |-> IF hasCross THEN ca.scores_bias ELSE <<>>,
     cross_computed |-> hasCross /\ ca.computed,
     cross_projected |-> hasCross /\ ca.projected]

\* T5Block.forward, lines 515-548: cross-attention, feed-forward, outputs.
BlockAfterSelf(B, layer, sa, position_bias, encoder_hidden_states, encoder_attention_mask, encoder_decoder_position_bias, cross_attn_past_key_value_state, use_cache, output_attentions) ==
    LET hidden1 == sa.outputs[1]
        present1 == sa.outputs[2]
        attention_outputs1 == TupleFrom(sa.outputs, 2)
        hasCross == B.is_decoder /\ encoder_hidden_states # <<>>
        query_length == IF present1 # <<>> THEN Len(present1[1]) ELSE NoLen
        \* Lines 530-548, ca the cross-attention's outputs.
        AfterCross(ca) ==
            LET hidden2 == IF hasCross THEN ca.outputs[1] ELSE hidden1
                present2 == IF hasCross /\ present1 # <<>> THEN present1 \o ca.outputs[2]
                            ELSE present1
                attention_outputs2 == IF hasCross
                                      THEN attention_outputs1 \o TupleFrom(ca.outputs, 2)
                                      ELSE attention_outputs1
            IN IF hasCross /\ ca.err # "" THEN BlockError(ca.err)
               ELSE [err |-> "",
                     outputs |-> <<T5LayerFF_forward(layer, hidden2), present2>>
                                 \o attention_outputs2,
                     tr |-> <<BlockTrace(position_bias, encoder_decoder_position_bias,
                                         sa, ca, hasCross)>>]
    IN AfterCross(IF hasCross
                  THEN T5LayerCrossAttention_forward(B, layer, hidden1,
                            encoder_hidden_states, encoder_attention_mask,
                            encoder_decoder_position_bias,
                            cross_attn_past_key_value_state, use_cache, query_length,
                            output_attentions)
                  ELSE AttnError(""))

\* Line 489: how many tensors the cache of one layer must hold.
ExpectedNumPast_SelfOnly(encoder_hidden_states) == 2

ExpectedNumPast(encoder_hidden_states) == IF encoder_hidden_states = <<>> THEN 2 ELSE 4

\* T5Block.forward.  B is the block: [is_decoder, has_relative_attention_bias].
T5Block_forward(B, layer, hidden_states, attention_mask, position_bias, encoder_hidden_states, encoder_attention_mask, encoder_decoder_position_bias, past_key_value_state, use_cache, output_attentions) ==
    LET hasPast == past_key_value_state # <<>>
        expected_num_past_key_value_states == ExpectedNumPast(encoder_hidden_states)
        self_attn_past_key_value_state ==
            IF hasPast THEN SubSeq(past_key_value_state, 1, 2) ELSE <<>>
        cross_attn_past_key_value_state ==
            IF hasPast THEN TupleFrom(past_key_value_state, 2) ELSE <<>>
        AfterSelf(sa) ==
            IF sa.err # "" THEN BlockError(sa.err)
            ELSE BlockAfterSelf(B, layer, sa, position_bias, encoder_hidden_states,
                                encoder_attention_mask, encoder_decoder_position_bias,
                                cross_attn_past_key_value_state, use_cache,
                                output_attentions)
    IN IF hasPast /\ ~B.is_decoder THEN BlockError("Only decoder can use past_key_value_states")
       ELSE IF hasPast /\ Len(past_key_value_state) # expected_num_past_key_value_states
            THEN BlockError("There should be 2 or 4 past states")
       ELSE AfterSelf(T5LayerSelfAttention_forward(B, layer, hidden_states, attention_mask,
                          position_bias, self_attn_past_key_value_state, use_cache,
                          output_attentions))

\* PreTrainedModel.get_extended_attention_mask for a [1, key length] mask:
\* 0 where attention is allowed, the large negative value elsewhere; for a
\* decoder the causal mask over the last seq_length positions is folded in.
get_extended_attention_mask(is_decoder, attention_mask, seq_length) ==
    IF is_decoder
    THEN [i \in 1..seq_length |->
            [j \in 1..Len(attention_mask) |->
                IF j - (Len(attention_mask) - seq_length) <= i /\ attention_mask[j] = 1
                THEN 0 ELSE MaskedValue]]
    ELSE <<[j \in 1..Len(attention_mask) |->
                IF attention_mask[j] = 1 THEN 0 ELSE MaskedValue]>>

\* PreTrainedModel.invert_attention_mask.
invert_attention_mask(encoder_attention_mask) ==
    <<[j \in 1..Len(encoder_attention_mask) |->
            IF encoder_attention_mask[j] = 1 THEN 0 ELSE MaskedValue]>>

Ones(n) == [j \in 1..n |-> 1]

\* self.embed_tokens(input_ids).
embed_tokens(input_ids) == [i \in 1..Len(input_ids) |-> [kind |-> "emb", tok |-> input_ids[i]]]

\* self.final_layer_norm(hidden_states).
final_layer_norm(hidden_states) ==
    [i \in 1..Len(hidden_states) |-> [kind |-> "final", x |-> hidden_states[i]]]

\* Lines 769-770 (1186-1187 in JointEncoder): use_cache=True asserts a
\* decoder.
UseCacheError_Never(S, use_cache) == FALSE

UseCacheError(S, use_cache) == use_cache /\ ~S.is_decoder

\* Lines 688-696: the length of the default attention mask.
MaskSeqLength_InputOnly(past_key_value_states, seq_length) == seq_length

MaskSeqLength(past_key_value_states, seq_length) ==
    IF past_key_value_states # <<>>
    THEN Len(past_key_value_states[1][1]) + seq_length
    ELSE seq_length

StackError(e) ==
    [err |-> e, hidden |-> <<>>, presents |-> <<>>, trace |-> <<>>]

\* Lines 751 and 753: where layer 0's biases sit in layer_outputs (0-based).
SelfBiasIndex_Fixed(output_attentions) == 2

SelfBiasIndex(output_attentions) == IF output_attentions THEN 3 ELSE 2

CrossBiasIndex(output_attentions) == IF output_attentions THEN 5 ELSE 3

\* One iteration of the layer loop of T5Stack.forward (lines 728-758); st
\* holds the loop's variables, a the arguments that do not change.
StackLayer(S, i, st, a) ==
    LET si == SelfBiasIndex(a.output_attentions) + 1
        ci == CrossBiasIndex(a.output_attentions) + 1
        takesCross == S.is_decoder /\ a.encoder_hidden_states # <<>>
        \* Lines 745-758, o the tuple the block returned.
        Taken(layer_outputs, o) ==
            IF layer_outputs.err # "" THEN [st EXCEPT !.err = layer_outputs.err]
            ELSE IF i = 1 /\ (si > Len(o) \/ (takesCross /\ ci > Len(o)))
                 THEN [st EXCEPT !.err = "IndexError"]
            ELSE [st EXCEPT
                     !.hidden_states = o[1],
                     !.position_bias = IF i = 1 THEN o[si] ELSE @,
                     !.encoder_decoder_position_bias =
                         IF i = 1 /\ takesCross THEN o[ci] ELSE @,
                     !.present_key_value_states = Append(@, o[2]),
                     !.trace = @ \o layer_outputs.tr]
        Unpack(layer_outputs) == Taken(layer_outputs, layer_outputs.outputs)
    IN Unpack(T5Block_forward([is_decoder |-> S.is_decoder,
                               has_relative_attention_bias |-> i = 1],
                              i, st.hidden_states, a.extended_attention_mask,
                              st.position_bias, a.encoder_hidden_states,
                              a.encoder_extended_attention_mask,
                              st.encoder_decoder_position_bias,
                              a.past_key_value_states[i], a.use_cache,
                              a.output_attentions))

RECURSIVE StackLoop(_, _, _, _, _)
StackLoop(S, i, n, st, a) ==
    IF i > n \/ st.err # "" THEN st
    ELSE StackLoop(S, i + 1, n, StackLayer(S, i, st, a), a)

\* Line 711: the stack's extended mask, causal when the stack is a decoder.
ExtendedMask_NonCausal(S, attention_mask, seq_length) ==
    get_extended_attention_mask(FALSE, attention_mask, seq_length)

ExtendedMask(S, attention_mask, seq_length) ==
    get_extended_attention_mask(S.is_decoder, attention_mask, seq_length)

\* T5Stack.forward from line 686 on, with attention_mask left to its
\* default.  S is the stack: [is_decoder, num_layers].
T5Stack_run(S, inputs_embeds, encoder_hidden_states, encoder_attention_mask, past_key_value_states, use_cache, output_attentions) ==
    LET seq_length == Len(inputs_embeds)
        hasPast == past_key_value_states # <<>>
        mask_seq_length == MaskSeqLength(past_key_value_states, seq_length)
        attention_mask == Ones(mask_seq_length)
        enc_mask == IF S.is_decoder /\ encoder_attention_mask = <<>>
                       /\ encoder_hidden_states # <<>>
                    THEN Ones(Len(encoder_hidden_states))
                    ELSE encoder_attention_mask
        pasts == IF hasPast THEN past_key_value_states
                 ELSE [l \in 1..S.num_layers |-> <<>>]
        a == [extended_attention_mask |-> ExtendedMask(S, attention_mask, seq_length),
              encoder_extended_attention_mask |->
                  IF S.is_decoder /\ enc_mask # <<>>
                  THEN invert_attention_mask(enc_mask) ELSE <<>>,
              encoder_hidden_states |-> encoder_hidden_states,
              past_key_value_states |-> pasts,
              use_cache |-> use_cache,
              output_attentions |-> output_attentions]
        st0 == [hidden_states |-> inputs_embeds,
                position_bias |-> <<>>,
                encoder_decoder_position_bias |-> <<>>,
                present_key_value_states |-> <<>>,
                trace |-> <<>>,
                err |-> ""]
        \* Lines 760-775, st the variables the layer loop left.
        Outputs(st) ==
            IF st.err # "" THEN StackError(st.err)
            ELSE IF UseCacheError(S, use_cache)
                 THEN StackError("use_cache can only be set to True if used as a decoder")
            ELSE [err |-> "",
                  hidden |-> final_layer_norm(st.hidden_states),
                  presents |-> IF use_cache THEN st.present_key_value_states ELSE <<>>,
                  trace |-> st.trace,
                  mask_seq_length |-> mask_seq_length]
    IN IF hasPast /\ seq_length # 1
       THEN StackError("Input shape should be (batch_size, 1) when using past_key_value_sates")
       ELSE Outputs(StackLoop(S, 1, Min(S.num_layers, Len(pasts)), st0, a))

\* T5Stack.forward with input_ids given: lines 669-684 embed them.
T5Stack_forward(S, input_ids, encoder_hidden_states, encoder_attention_mask, past_key_value_states, use_cache, output_attentions) ==
    T5Stack_run(S, embed_tokens(input_ids), encoder_hidden_states, encoder_attention_mask,
                past_key_value_states, use_cache, output_attentions)

(***************************************************************************)
(* JointEncoder.                                                           *)
(***************************************************************************)
pad_token_id == 0

\* T5Block.__init__ (lines 463-471): the attributes a block has.
T5Block_attributes == {"is_decoder", "layer"}

\* JointEncoder.forward from line 1107 on: lines 1133 and 1140 read
\* self.block[0].module, the bias is computed by the stack and handed to
\* every layer, the mask in it.
JointEncoder_run(S, inputs_embeds, attention_mask, use_cache, output_attentions) ==
    LET L == Len(inputs_embeds)
        extended_attention_mask == get_extended_attention_mask(S.is_decoder, attention_mask, L)
        text_position_bias == compute_bias(S.is_decoder, L, L)
        a == [extended_attention_mask |-> <<attention_mask>>,
              encoder_extended_attention_mask |-> <<>>,
              encoder_hidden_states |-> <<>>,
              past_key_value_states |-> [l \in 1..S.num_layers |-> <<>>],
              use_cache |-> use_cache,
              output_attentions |-> output_attentions]
        st0 == [hidden_states |-> inputs_embeds,
                position_bias |-> IF S.num_layers > 0
                                  THEN AddMask(text_position_bias, extended_attention_mask)
                                  ELSE <<>>,
                encoder_decoder_position_bias |-> <<>>,
                present_key_value_states |-> <<>>,
                trace |-> <<>>,
                err |-> ""]
        Outputs(st) ==
            IF st.err # "" THEN StackError(st.err)
            ELSE IF UseCacheError(S, use_cache)
                 THEN StackError("use_cache can only be set to True if used as a decoder")
            ELSE [err |-> "",
                  hidden |-> final_layer_norm(st.hidden_states),
                  presents |-> IF use_cache THEN st.present_key_value_states ELSE <<>>,
                  trace |-> st.trace]
    IN IF S.num_layers > 0 /\ "module" \notin T5Block_attributes
       THEN StackError("AttributeError: T5Block object has no attribute module")
       ELSE Outputs(StackLoop(S, 1, S.num_layers, st0, a))

\* JointEncoder.forward with input_ids alone: lines 1104-1111 embed them
\* and mask the padding.
JointEncoder_forward(S, input_ids, use_cache, output_attentions) ==
    JointEncoder_run(S, embed_tokens(input_ids),
                     [i \in 1..Len(input_ids) |-> IF input_ids[i] # pad_token_id THEN 1 ELSE 0],
                     use_cache, output_attentions)

(***************************************************************************)
(* The forward methods as a caller may call them, every optional argument  *)
(* None or given.  A cache that is an empty tuple is not None.             *)
(***************************************************************************)

\* T5Stack.forward, lines 669-696 in front of the rest.
T5Stack_call(S, input_ids, inputs_embeds, encoder_hidden_states, past_key_value_states, use_cache) ==
    LET embeds == IF inputs_embeds = None THEN embed_tokens(input_ids[1])
                  ELSE inputs_embeds[1]
    IN IF input_ids # None /\ inputs_embeds # None
       THEN StackError("You cannot specify both input_ids and inputs_embeds at the same time")
       ELSE IF input_ids = None /\ inputs_embeds = None
            THEN StackError(IF S.is_decoder
                            THEN "You have to specify either decoder_input_ids or decoder_inputs_embeds"
                            ELSE "You have to specify either input_ids or inputs_embeds")
       ELSE IF past_key_value_states # None /\ Len(embeds) # 1
            THEN StackError("Input shape should be (batch_size, 1) when using past_key_value_sates")
       ELSE IF past_key_value_states # None /\ past_key_value_states[1] = <<>>
            THEN StackError("IndexError: tuple index out of range")
       ELSE T5Stack_run(S, embeds,
                        IF encoder_hidden_states = None THEN <<>> ELSE encoder_hidden_states[1],
                        <<>>,
                        IF past_key_value_states = None THEN <<>> ELSE past_key_value_states[1],
                        use_cache, FALSE)

\* JointEncoder.forward, lines 1086-1111 in front of the rest.  vis_inputs
\* is accepted and not read.
JointEncoder_call(S, input_ids, inputs_embeds, attention_mask, vis_inputs, use_cache) ==
    LET embeds == IF inputs_embeds = None THEN embed_tokens(input_ids[1])
                  ELSE inputs_embeds[1]
        mask == IF attention_mask = None
                THEN [i \in 1..Len(input_ids[1]) |->
                         IF input_ids[1][i] # pad_token_id THEN 1 ELSE 0]
                ELSE attention_mask[1]
    IN IF inputs_embeds = None /\ input_ids = None
       THEN StackError("TypeError: embedding(): argument indices must be Tensor, not NoneType")
       ELSE IF attention_mask = None /\ input_ids = None
            THEN StackError("AttributeError: NoneType object has no attribute ne")
       ELSE JointEncoder_run(S, embeds, mask, use_cache, FALSE)

\* T5Block.forward of the first block of a stack, no bias handed in.
T5Block_call(B, hidden_states, attention_mask, encoder_hidden_states, past_key_value_state, use_cache) ==
    IF past_key_value_state # None /\ past_key_value_state[1] = <<>>
    THEN (IF ~B.is_decoder THEN BlockError("Only decoder can use past_key_value_states")
          ELSE BlockError("There should be 2 or 4 past states"))
    ELSE T5Block_forward(B, 1, hidden_states, attention_mask, <<>>,
                         IF encoder_hidden_states = None THEN <<>> ELSE encoder_hidden_states[1],
                         <<>>, <<>>,
                         IF past_key_value_state = None THEN <<>> ELSE past_key_value_state[1],
                         use_cache, FALSE)

\* T5Attention.forward of a module that has the relative attention bias.
T5Attention_call(A, input, mask, kv, past_key_value_state, use_cache) ==
    IF past_key_value_state # None /\ past_key_value_state[1] = <<>>
    THEN (IF ~A.is_decoder THEN AttnError("Encoder cannot cache past key value states")
          ELSE AttnError("past_key_value_state should have 2 past states"))
    ELSE T5Attention_forward(A, input, mask,
                             IF kv = None THEN <<>> ELSE kv[1], <<>>,
                             IF past_key_value_state = None THEN <<>> ELSE past_key_value_state[1],
                             NoLen, use_cache, FALSE)

(***************************************************************************)
(* Spec: one stack (a T5Stack used as encoder or decoder, or a             *)
(* JointEncoder) called repeatedly by a decoding driver.  The driver holds *)
(* the tokens fed so far (ids) and the cache the last call returned (past, *)
(* <<>> when it returned none).  With a cache it feeds the new tokens      *)
(* only, without one the whole sequence.                                   *)
(***************************************************************************)
MaxLayers == 2
MaxEnc == 2
MaxLen == 3
MaxNew == 2
VocabSize == 2

EncoderStates(c) == [i \in 1..c.enc_len |-> [kind |-> "enc", pos |-> i]]

\* The encoder attention mask the caller passes: None, or the last encoder
\* position padded out.
EncoderMask(c) ==
    IF c.enc_pad THEN [i \in 1..c.enc_len |-> IF i = c.enc_len THEN 0 ELSE 1] ELSE <<>>

NoCall ==
    [called |-> FALSE, err |-> "", hidden |-> <<>>, trace |-> <<>>,
     use_cache |-> FALSE, output_attentions |-> FALSE, had_past |-> FALSE,
     n_new |-> 0]

\* T5Stack.__init__ / JointEncoder.__init__ (which asserts is_decoder is
\* False), and a driver that has fed nothing yet.
Init ==
    /\ \E dec \in BOOLEAN, joint \in BOOLEAN, nl \in 1..MaxLayers,
          el \in 0..MaxEnc, pad \in BOOLEAN :
          /\ ~dec => el = 0
          /\ joint => ~dec
          /\ pad => el >= 2
          /\ cfg = [is_decoder |-> dec, joint |-> joint, num_layers |-> nl,
                    enc_len |-> el, enc_pad |-> pad]
    /\ ids = <<>>
    /\ past = <<>>
    /\ out = NoCall
    /\ bk = Idle /\ att = Idle /\ calls = <<>> /\ gen = Idle

NewTokens == UNION {[1..n -> 0..(VocabSize - 1)] : n \in 1..MaxNew}

Called(r, use_cache, output_attentions, new) ==
    [called |-> TRUE, err |-> r.err, hidden |-> r.hidden, trace |-> r.trace,
     use_cache |-> use_cache, output_attentions |-> output_attentions,
     had_past |-> past # <<>>, n_new |-> Len(new)]

\* One call of T5Stack.forward by the driver.
Forward ==
    /\ ~cfg.joint
    /\ \E new \in NewTokens, use_cache \in BOOLEAN, output_attentions \in BOOLEAN :
         /\ Len(ids) + Len(new) <= MaxLen
         /\ LET input_ids == IF past = <<>> THEN ids \o new ELSE new
                Returned(r) ==
                    /\ out' = Called(r, use_cache, output_attentions, new)
                    /\ IF r.err = ""
                       THEN ids' = ids \o new /\ past' = r.presents
                       ELSE UNCHANGED <<ids, past>>
            IN Returned(T5Stack_forward(cfg, input_ids, EncoderStates(cfg),
                                        EncoderMask(cfg), past, use_cache,
                                        output_attentions))
    /\ UNCHANGED <<cfg, bk, att, calls, gen>>

\* One call of JointEncoder.forward by the driver.
JointForward ==
    /\ cfg.joint
    /\ \E new \in NewTokens, use_cache \in BOOLEAN, output_attentions \in BOOLEAN :
         /\ Len(ids) + Len(new) <= MaxLen
         /\ LET Returned(r) ==
                    /\ out' = Called(r, use_cache, output_attentions, new)
                    /\ IF r.err = ""
                       THEN ids' = ids \o new /\ past' = r.presents
                       ELSE UNCHANGED <<ids, past>>
            IN Returned(JointEncoder_forward(cfg, ids \o new, use_cache,
                                             output_attentions))
    /\ UNCHANGED <<cfg, bk, att, calls, gen>>

Next == Forward \/ JointForward

Spec == Init /\ [][Next]_vars

OutOK == out.called /\ out.err = ""

\* The same stack run once over all the tokens with no cache.
Uncached == T5Stack_forward(cfg, ids, EncoderStates(cfg), EncoderMask(cfg), <<>>, FALSE, FALSE)

LastRow(t) == t[Len(t)]

\* C1: after any chain of calls that each returned a cache (use_cache=True,
\* one new token per cached step), the output for the newest token equals
\* the output at the last position of one uncached pass over all the tokens,
\* and in every layer the newest query's scores carry the same bias row
\* (buckets and mask) over the same number of keys, in self- and in
\* cross-attention.
C1_CacheEquivalence ==
    (OutOK /\ cfg.is_decoder /\ out.use_cache) =>
        LET u == Uncached
        IN /\ LastRow(out.hidden) = LastRow(u.hidden)
           /\ \A l \in 1..cfg.num_layers :
                 LET c == out.trace[l]
                     f == u.trace[l]
                 IN /\ LastRow(c.self_scores_bias) = LastRow(f.self_scores_bias)
                    /\ Len(LastRow(c.self_scores_bias)) = Len(ids)
                    /\ c.has_cross =>
                          LastRow(c.cross_scores_bias) = LastRow(f.cross_scores_bias)

\* A third token decoded from the cache of the first two, one token per
\* step, through two layers with cross-attention.
C1_Witness ==
    /\ OutOK /\ cfg.is_decoder /\ out.use_cache /\ out.had_past
    /\ Len(ids) = 3
    /\ Len(out.hidden) = 1
    /\ cfg.num_layers >= 2
    /\ cfg.enc_len >= 2
    /\ Len(past[1][1]) = 3

\* A successful call: the driver's tokens grew.
Stepped == Len(ids') > Len(ids)

\* C2: with use_cache=True and encoder states, every call leaves for every
\* layer a 4-tuple cache that the stack accepts at the next step, whose
\* self-attention key and value have as many positions as tokens were fed
\* (n0 + t); after a cached step they are the previous key and value with
\* one position appended.
C2_CacheGrows ==
    [][(Stepped /\ cfg.is_decoder /\ cfg.enc_len > 0 /\ out'.use_cache) =>
          /\ Len(past') = cfg.num_layers
          /\ \A l \in 1..cfg.num_layers :
                /\ Len(past'[l]) = 4
                /\ Len(past'[l][1]) = Len(ids')
                /\ Len(past'[l][2]) = Len(ids')
                /\ past # <<>> =>
                      /\ Len(ids') = Len(ids) + 1
                      /\ SubSeq(past'[l][1], 1, Len(ids)) = past[l][1]
                      /\ SubSeq(past'[l][2], 1, Len(ids)) = past[l][2]
          /\ T5Stack_forward(cfg, <<0>>, EncoderStates(cfg), EncoderMask(cfg),
                             past', TRUE, FALSE).err = ""]_vars

\* Two cached steps after a first call: the cache holds three positions.
C2_Witness ==
    /\ OutOK /\ cfg.is_decoder /\ cfg.enc_len > 0
    /\ out.use_cache /\ out.had_past
    /\ cfg.num_layers >= 2
    /\ Len(ids) = 3
    /\ \A l \in 1..cfg.num_layers : Len(past[l]) = 4 /\ Len(past[l][1]) = 3

\* C3: in a call that is given a cache, the cross-attention of every layer
\* does not project the encoder states, and the pair it returns as present
\* cache is the cached pair: the cross-attention cache is the same after
\* the step as before, and as long as the encoder sequence.
C3_CrossCacheFrame ==
    [][(Stepped /\ cfg.is_decoder /\ cfg.enc_len > 0 /\ past # <<>>) =>
          \A l \in 1..cfg.num_layers :
             /\ out'.trace[l].has_cross
             /\ ~out'.trace[l].cross_projected
             /\ out'.use_cache =>
                   /\ past'[l][3] = past[l][3]
                   /\ past'[l][4] = past[l][4]
                   /\ Len(past'[l][3]) = cfg.enc_len
                   /\ Len(past'[l][4]) = cfg.enc_len]_vars

\* A second cached step: the cross-attention cache went through two steps.
C3_Witness ==
    /\ OutOK /\ cfg.is_decoder /\ cfg.enc_len = 2
    /\ out.use_cache /\ out.had_past
    /\ Len(ids) = 3
    /\ Len(past[1][1]) = 3
    /\ Len(past[1][3]) = 2
    /\ ~out.trace[1].cross_projected

\* C4: in a T5Stack forward pass only layer 0 computes the bias; every
\* later layer is passed the bias layer 0 added to its scores (for self-
\* attention, and with encoder states for cross-attention), whatever
\* output_attentions is, and no pass ends in the "No position_bias
\* provided" error.
C4_BiasShared ==
    (out.called /\ ~cfg.joint) =>
        /\ out.err # "No position_bias provided and no weights to compute position_bias"
        /\ out.err = "" =>
              /\ Len(out.trace) = cfg.num_layers
              /\ \A l \in 1..cfg.num_layers :
                    LET t == out.trace[l]
                        t0 == out.trace[1]
                    IN /\ t.self_computed = (l = 1)
                       /\ t.cross_computed = (l = 1 /\ t.has_cross)
                       /\ l > 1 => t.position_bias_in = t0.self_scores_bias
                       /\ (l > 1 /\ t.has_cross) =>
                             t.encoder_decoder_position_bias_in = t0.cross_scores_bias
                       /\ t.self_scores_bias = t0.self_scores_bias
                       /\ t.cross_scores_bias = t0.cross_scores_bias

\* A decoder pass with encoder states and output_attentions over two layers.
C4_Witness ==
    /\ OutOK /\ cfg.is_decoder /\ cfg.enc_len > 0
    /\ out.output_attentions
    /\ cfg.num_layers >= 2
    /\ Len(out.trace) = cfg.num_layers
    /\ out.trace[2].position_bias_in # <<>>
    /\ out.trace[2].encoder_decoder_position_bias_in # <<>>

\* Every entry of the bias holds exactly n additions of a mask.
MaskCount(position_bias, n) ==
    \A i \in 1..Len(position_bias) :
        \A j \in 1..Len(position_bias[i]) : position_bias[i][j].c = n

\* C5: in every layer of a forward pass the bias added to the attention
\* scores holds the additive mask exactly once, in self-attention and in
\* cross-attention.
C5_MaskOnce ==
    out.called =>
        \A l \in 1..Len(out.trace) :
            /\ out.trace[l].self_scores_bias # <<>>
            /\ MaskCount(out.trace[l].self_scores_bias, 1)
            /\ out.trace[l].has_cross =>
                  /\ out.trace[l].cross_scores_bias # <<>>
                  /\ MaskCount(out.trace[l].cross_scores_bias, 1)

\* The last of two layers, with a masked-out entry in both biases.
C5_Witness ==
    /\ OutOK /\ cfg.num_layers >= 2 /\ cfg.enc_pad
    /\ Len(out.trace) = cfg.num_layers
    /\ \E j \in 1..Len(out.trace[2].self_scores_bias[1]) :
          out.trace[2].self_scores_bias[1][j].m = MaskedValue
    /\ \E j \in 1..Len(out.trace[2].cross_scores_bias[1]) :
          out.trace[2].cross_scores_bias[1][j].m = MaskedValue

(***************************************************************************)
(* SpecReorder: VLT5._reorder_cache called by beam search after each       *)
(* re-ranking.  past is the pair (encoder outputs, decoder cache); the     *)
(* decoder cache holds, per layer, four tensors whose first axis is the    *)
(* beam.  A row of a tensor is the term [layer, tensor, beam, len]: which  *)
(* beam's keys or values it holds and over how many positions.             *)
(***************************************************************************)
MaxBeams == 3

\* torch.Tensor.index_select(0, index).
index_select(t, index) == [r \in 1..Len(index) |-> t[index[r] + 1]]

\* The shape of a cached tensor: rows along the beam axis, positions per row.
Shape(t) == <<Len(t), {t[r].len : r \in 1..Len(t)}>>

\* Lines 1411-1416 reordering the self-attention pair only.
ReorderLayer_SelfOnly(layer_past_states, beam_idx) ==
    [t \in 1..Len(layer_past_states) |->
        IF t <= 2 THEN index_select(layer_past_states[t], beam_idx)
        ELSE layer_past_states[t]]

\* Lines 1411-1416: the inner loop over one layer's tensors.
ReorderLayer(layer_past_states, beam_idx) ==
    [t \in 1..Len(layer_past_states) |-> index_select(layer_past_states[t], beam_idx)]

\* VLT5._reorder_cache; past[2] = <<>> is a decoder past of None.
_reorder_cache(p, beam_idx) ==
    IF p[2] = <<>> THEN [err |-> "", ret |-> p]
    ELSE LET reordered_decoder_past ==
                 [l \in 1..Len(p[2]) |-> ReorderLayer(p[2][l], beam_idx)]
         IN IF \E l \in 1..Len(p[2]) :
                  Shape(reordered_decoder_past[l][1]) # Shape(p[2][l][1])
            THEN [err |-> "AssertionError", ret |-> <<>>]
            ELSE [err |-> "", ret |-> <<p[1], reordered_decoder_past>>]

\* The cache a decoder pass with use_cache=True leaves for `beams` beams:
\* self-attention key and value over cur_len positions, cross-attention
\* key and value over enc_len positions.
BeamCache(num_layers, beams, cur_len, enc_len) ==
    [l \in 1..num_layers |->
        [t \in 1..4 |->
            [b \in 1..beams |->
                [layer |-> l, tensor |-> t, beam |-> b - 1,
                 len |-> IF t <= 2 THEN cur_len ELSE enc_len]]]]

ReorderInit ==
    /\ \E nl \in 1..MaxLayers, beams \in 2..MaxBeams, cached \in BOOLEAN,
          cur_len \in 1..2, enc_len \in {MaxEnc} :
          /\ cfg = [num_layers |-> nl, beams |-> beams]
          /\ past = <<[b \in 1..beams |-> [kind |-> "enc", beam |-> b - 1]],
                      IF cached THEN BeamCache(nl, beams, cur_len, enc_len) ELSE <<>> >>
    /\ out = [called |-> FALSE, err |-> "", beam_idx |-> <<>>]
    /\ ids = <<>>
    /\ bk = Idle /\ att = Idle /\ calls = <<>> /\ gen = Idle

\* One re-ranking: beam search hands over one index per beam; a caller may
\* hand over fewer.
Reorder ==
    /\ \E n \in {cfg.beams - 1, cfg.beams} :
         \E beam_idx \in [1..n -> 0..(cfg.beams - 1)] :
            LET Returned(r) ==
                    /\ out' = [called |-> TRUE, err |-> r.err, beam_idx |-> beam_idx]
                    /\ past' = IF r.err = "" THEN r.ret ELSE past
            IN Returned(_reorder_cache(past, beam_idx))
    /\ UNCHANGED <<cfg, ids, bk, att, calls, gen>>

ReorderNext == Reorder

SpecReorder == ReorderInit /\ [][ReorderNext]_vars

\* C12: a call of _reorder_cache that returns with a decoder cache present
\* leaves the encoder outputs as they were, keeps the number of layers, the
\* number of tensors per layer and every tensor's shape, and makes row r of
\* every cached tensor the row beam_idx[r] of the tensor before the call.
C12_ReorderCache ==
    [][(out'.called /\ out'.err = "" /\ past[2] # <<>>) =>
          /\ past'[1] = past[1]
          /\ Len(past'[2]) = Len(past[2])
          /\ \A l \in 1..Len(past[2]) :
                /\ Len(past'[2][l]) = Len(past[2][l])
                /\ \A t \in 1..Len(past[2][l]) :
                      /\ Shape(past'[2][l][t]) = Shape(past[2][l][t])
                      /\ \A r \in 1..Len(out'.beam_idx) :
                            past'[2][l][t][r] = past[2][l][t][out'.beam_idx[r] + 1]]_vars

\* Three beams over two layers after a re-ranking that is no identity: beam
\* 0 descends from beam 2 and beam 1 was dropped, in the cross-attention
\* tensors too.
C12_Witness ==
    /\ out.called /\ out.err = "" /\ "beam_idx" \in DOMAIN out
    /\ past[2] # <<>>
    /\ Len(past[2]) = 2
    /\ out.beam_idx = <<2, 0, 2>>
    /\ past[2][2][4][1].beam = 2
    /\ \A r \in 1..3 : past[2][2][1][r].beam # 1

\* The cache a decoder of nl layers returns for n tokens with use_cache=True.
DecoderCache(nl, enc, n) ==
    T5Stack_forward([is_decoder |-> TRUE, num_layers |-> nl], [i \in 1..n |-> 1],
                    IF enc THEN EncoderStates([enc_len |-> MaxEnc]) ELSE <<>>,
                    <<>>, <<>>, TRUE, FALSE).presents

(***************************************************************************)
(* SpecGenerate: VLT5.generate, statement by statement.                    *)
(*                                                                         *)
(* The arguments of generate are taken after lines 1438-1461 replaced      *)
(* every None by the configuration's value.                                *)
(***************************************************************************)
\* isinstance(x, int) and isinstance(x, bool) of an argument that is None
\* or of the type.
IsInt(x) == x # None
IsBool(x) == x # None

\* A call every check accepts: greedy, one sequence, the encoder input
\* <<1, 1>>, token 0 as padding and as decoder start.
DefaultArgs ==
    [max_length |-> Some(2), min_length |-> Some(0), do_sample |-> Some(FALSE),
     early_stopping |-> Some(FALSE), use_cache |-> Some(TRUE), num_beams |-> Some(1),
     temperature |-> Some(1), top_k |-> Some(0), top_p |-> Some(1),
     repetition_penalty |-> Some(1), input_ids |-> Some([dim |-> 2, row |-> <<1, 1>>, batch |-> 1]),
     bos_token_id |-> None, pad_token_id |-> Some(0), eos_token_id |-> Some(1),
     length_penalty |-> Some(1), no_repeat_ngram_size |-> Some(0),
     num_return_sequences |-> Some(1), bad_words_ids |-> None,
     decoder_start_token_id |-> Some(0)]

\* Other values of single arguments, accepted ones and rejected ones.
\* bad_words_ids is [list, first]: whether it is a list, and whether its
\* first element is one.
OtherArgs ==
    {<<"max_length", Some(2)>>,
     <<"max_length", Some(3)>>, <<"max_length", Some(0)>>, <<"max_length", None>>,
     <<"min_length", Some(-1)>>,
     <<"do_sample", Some(TRUE)>>, <<"do_sample", None>>,
     <<"early_stopping", None>>,
     <<"use_cache", Some(FALSE)>>, <<"use_cache", None>>,
     <<"num_beams", Some(2)>>, <<"num_beams", Some(0)>>,
     <<"temperature", Some(0)>>,
     <<"top_k", Some(-1)>>,
     <<"top_p", Some(2)>>,
     <<"repetition_penalty", Some(0)>>,
     <<"input_ids", None>>, <<"input_ids", Some([dim |-> 1, row |-> <<1, 1>>, batch |-> 1])>>,
     <<"input_ids", Some([dim |-> 2, row |-> <<1, 0>>, batch |-> 1])>>,
     <<"input_ids", Some([dim |-> 2, row |-> <<1, 1>>, batch |-> 2])>>,
     <<"bos_token_id", Some(1)>>, <<"bos_token_id", Some(-1)>>,
     <<"pad_token_id", None>>, <<"pad_token_id", Some(-1)>>,
     <<"eos_token_id", None>>, <<"eos_token_id", Some(-1)>>,
     <<"length_penalty", Some(0)>>,
     <<"no_repeat_ngram_size", Some(-1)>>,
     <<"num_return_sequences", Some(2)>>, <<"num_return_sequences", Some(0)>>,
     <<"bad_words_ids", Some([list |-> TRUE, first |-> TRUE])>>,
     <<"bad_words_ids", Some([list |-> TRUE, first |-> FALSE])>>,
     <<"bad_words_ids", Some([list |-> FALSE, first |-> FALSE])>>,
     <<"decoder_start_token_id", None>>}

WithArg(g, d) == [g EXCEPT ![d[1]] = d[2]]

\* The assert statements of lines 1468-1521 and 1560-1562, by the name of
\* what they check: TRUE when the assertion passes.
Check(name, g) ==
    CASE name = "max_length" -> IsInt(g.max_length) /\ g.max_length[1] > 0
      [] name = "min_length" -> IsInt(g.min_length) /\ g.min_length[1] >= 0
      [] name = "do_sample" -> IsBool(g.do_sample)
      [] name = "early_stopping" -> IsBool(g.early_stopping)
      [] name = "use_cache" -> IsBool(g.use_cache)
      [] name = "num_beams" -> IsInt(g.num_beams) /\ g.num_beams[1] > 0
      [] name = "temperature" -> g.temperature[1] > 0
      [] name = "top_k" -> IsInt(g.top_k) /\ g.top_k[1] >= 0
      [] name = "top_p" -> 0 <= g.top_p[1] /\ g.top_p[1] <= 1
      [] name = "repetition_penalty" -> g.repetition_penalty[1] >= 1
      [] name = "bos_token_id" ->
            g.input_ids # None \/ (IsInt(g.bos_token_id) /\ g.bos_token_id[1] >= 0)
      [] name = "pad_token_id" ->
            g.pad_token_id = None \/ (IsInt(g.pad_token_id) /\ g.pad_token_id[1] >= 0)
      [] name = "eos_token_id" ->
            g.eos_token_id = None \/ (IsInt(g.eos_token_id) /\ g.eos_token_id[1] >= 0)
      [] name = "length_penalty" -> g.length_penalty[1] > 0
      [] name = "no_repeat_ngram_size" ->
            IsInt(g.no_repeat_ngram_size) /\ g.no_repeat_ngram_size[1] >= 0
      [] name = "num_return_sequences" ->
            IsInt(g.num_return_sequences) /\ g.num_return_sequences[1] > 0
      [] name = "bad_words_ids" ->
            g.bad_words_ids = None
               \/ (g.bad_words_ids[1].list /\ g.bad_words_ids[1].first)
      [] name = "input_ids" ->
            IF g.input_ids = None
            THEN IsInt(g.bos_token_id) /\ g.bos_token_id[1] >= 0
            ELSE g.input_ids[1].dim = 2
      [] name = "return_count" ->
            g.do_sample[1] = FALSE =>
               IF g.num_beams[1] = 1 THEN g.num_return_sequences[1] = 1
               ELSE g.num_beams[1] >= g.num_return_sequences[1]
      [] name = "decoder_start_token_id" ->
            g.decoder_start_token_id # None \/ g.bos_token_id # None

\* The names of the decoding-parameter checks.
ParameterChecks ==
    {"max_length", "min_length", "do_sample", "early_stopping", "use_cache",
     "num_beams", "temperature", "top_k", "top_p", "repetition_penalty",
     "bos_token_id", "pad_token_id", "eos_token_id", "length_penalty",
     "no_repeat_ngram_size", "num_return_sequences", "bad_words_ids", "input_ids",
     "return_count", "decoder_start_token_id"}

\* The encoder called at the top of generate, before any argument is looked at.
Statements_EncoderFirst ==
    <<"encoder",
      "max_length", "min_length", "do_sample", "early_stopping", "use_cache",
      "num_beams", "temperature", "top_k", "top_p", "repetition_penalty",
      "bos_token_id", "pad_token_id", "eos_token_id", "length_penalty",
      "no_repeat_ngram_size", "num_return_sequences", "bad_words_ids", "input_ids",
      "return_count", "attention_mask", "decoder_start_token_id", "expand",
      "decode">>

\* The statements of generate in the order of lines 1468-1666: the asserts,
\* the attention mask of lines 1523-1536, the encoder call of line 1569,
\* the decoder's first input of lines 1576-1616, the decoding loop of
\* lines 1618-1666.
Statements ==
    <<"max_length", "min_length", "do_sample", "early_stopping", "use_cache",
      "num_beams", "temperature", "top_k", "top_p", "repetition_penalty",
      "bos_token_id", "pad_token_id", "eos_token_id", "length_penalty",
      "no_repeat_ngram_size", "num_return_sequences", "bad_words_ids", "input_ids",
      "return_count", "attention_mask", "decoder_start_token_id", "encoder",
      "expand", "decode">>

\* The token at the bottom of a hidden-state term.
RECURSIVE Bottom(_)
Bottom(h) == IF h.kind = "emb" THEN h.tok ELSE Bottom(h.x)

\* argmax of lm_head(sequence_output) at one position, for the weights lm.
ArgMax(h, lm) == lm[Bottom(h) + 1]

\* What a call of VLT5.forward did: encoder_ran counts its encoder calls,
\* decoder_input is what it gave the decoder (<<>> when it did not get
\* there).
ForwardError(e, encoder_ran, decoder_input) ==
    [err |-> e, hidden |-> <<>>, past |-> <<>>, encoder_ran |-> encoder_ran,
     decoder_input |-> decoder_input]

\* Line 1315: whether forward calls the encoder.
RunsEncoder_Always(encoder_outputs) == TRUE

RunsEncoder(encoder_outputs) == encoder_outputs = None

\* Line 1338: decoder_input_ids[:, -1:].
LastToken(decoder_input_ids) == <<decoder_input_ids[Len(decoder_input_ids)]>>

\* VLT5.forward without labels, embeddings or visual attention mask;
\* input_ids, attention_mask, encoder_outputs and
\* decoder_past_key_value_states are None or given.  The result's past is
\* output index 1 when use_cache is True.
VLT5_forward(S, input_ids, attention_mask, encoder_outputs, decoder_input_ids, decoder_past_key_value_states, use_cache) ==
    LET \* Lines 1327-1383, enc the encoder's outputs.
        Decode(enc, ran) ==
            LET hidden_states == enc[1]
                dec_in == IF decoder_past_key_value_states # None
                          THEN LastToken(decoder_input_ids)
                          ELSE decoder_input_ids
                mask == IF attention_mask = None
                        THEN [i \in 1..Len(input_ids[1]) |->
                                 IF input_ids[1][i] # pad_token_id THEN 1 ELSE 0]
                        ELSE attention_mask[1]
                V_L == Len(hidden_states) - Len(mask)
                Returned(r) ==
                    IF r.err # "" THEN ForwardError(r.err, ran, dec_in)
                    ELSE [err |-> "", hidden |-> r.hidden,
                          past |-> IF use_cache THEN <<enc, Some(r.presents)>> ELSE <<>>,
                          encoder_ran |-> ran, decoder_input |-> dec_in]
            IN IF attention_mask = None /\ input_ids = None
               THEN ForwardError("AttributeError: NoneType object has no attribute ne", ran, <<>>)
               ELSE IF V_L < 0 THEN ForwardError("RuntimeError: negative dimension", ran, <<>>)
               ELSE IF \E i \in 1..Len(dec_in) : dec_in[i] \notin 0..(VocabSize - 1)
                    THEN ForwardError("IndexError: index out of range in self", ran, dec_in)
               ELSE IF decoder_past_key_value_states # None
                       /\ decoder_past_key_value_states[1] = <<>>
                    THEN ForwardError("IndexError: tuple index out of range", ran, dec_in)
               ELSE Returned(T5Stack_forward([is_decoder |-> TRUE, num_layers |-> S.num_layers],
                                             dec_in, hidden_states, Ones(V_L) \o mask,
                                             IF decoder_past_key_value_states = None THEN <<>>
                                             ELSE decoder_past_key_value_states[1],
                                             use_cache, FALSE))
        \* Lines 1317-1325, e what the encoder did.
        Encoded(e) ==
            IF e.err # "" THEN ForwardError(e.err, 1, <<>>) ELSE Decode(<<e.hidden>>, 1)
    IN IF RunsEncoder(encoder_outputs)
       THEN Encoded(JointEncoder_call([is_decoder |-> FALSE, num_layers |-> S.num_layers],
                                      input_ids, None, attention_mask, <<>>, FALSE))
       ELSE Decode(encoder_outputs[1], 0)

\* VLT5.prepare_inputs_for_generation, lines 1385-1396; past is the pair
\* the loop holds.
prepare_inputs_for_generation(input_ids, p, attention_mask, use_cache) ==
    [decoder_input_ids |-> input_ids,
     decoder_past_key_value_states |-> p[2],
     encoder_outputs |-> p[1],
     attention_mask |-> attention_mask,
     use_cache |-> use_cache]

\* The model generate is called on: both stacks have cfg.num_layers layers
\* (lines 1205-1211 copy the one configuration), the module is in training
\* or in evaluation mode, lm are the weights of the output head.  The
\* caller calls generate (gen.run = 1) or calls forward itself (gen.run = 0).
GenerateInit ==
    /\ \E nl \in 0..1, training \in BOOLEAN, lm \in [1..VocabSize -> 0..(VocabSize - 1)],
          d1 \in OtherArgs, d2 \in OtherArgs, generates \in BOOLEAN :
          /\ ~generates => (d1 = <<"max_length", Some(2)>> /\ d2 = d1)
          /\ cfg = [num_layers |-> nl, training |-> training, lm |-> lm]
          /\ gen = [pc |-> IF generates THEN 1 ELSE 0,
                    args |-> WithArg(WithArg(DefaultArgs, d1), d2),
                    g |-> WithArg(WithArg(DefaultArgs, d1), d2),
                    err |-> "", attention_mask |-> <<>>,
                    encoder_calls |-> 0, decoder_calls |-> 0, output |-> None,
                    run |-> IF generates THEN 1 ELSE 0,
                    first |-> <<>>, enc |-> <<>>, last |-> <<>>, expanded |-> <<>>]
    /\ ids = <<>>
    /\ past = <<>>
    /\ out = Idle /\ bk = Idle /\ att = Idle /\ calls = <<>>

\* The statement generate is at; "" once it returned or raised.
Statement == IF gen.pc = 0 THEN "" ELSE Statements[gen.pc]

Raised(e) == [gen EXCEPT !.pc = 0, !.err = e]

\* One assert of lines 1468-1521; lines 1498-1505 build the prompt from
\* bos_token_id when no input_ids is given.
GenCheck ==
    /\ Statement \in ParameterChecks \ {"decoder_start_token_id"}
    /\ gen' = IF ~Check(Statement, gen.g) THEN Raised("AssertionError: " \o Statement)
              ELSE IF Statement = "input_ids" /\ gen.g.input_ids = None
                   THEN [gen EXCEPT !.pc = @ + 1,
                            !.g.input_ids = Some([dim |-> 2, row |-> <<gen.g.bos_token_id[1]>>,
                                                  batch |-> 1])]
              ELSE [gen EXCEPT !.pc = @ + 1]
    /\ UNCHANGED <<cfg, ids, past, out, bk, att, calls>>

\* Lines 1523-1536: the attention mask of the prompt, and pad_token_id
\* defaulting to eos_token_id.
GenAttentionMask ==
    /\ Statement = "attention_mask"
    /\ LET row == gen.g.input_ids[1].row
           pad == gen.g.pad_token_id
       IN gen' = [gen EXCEPT
                     !.pc = @ + 1,
                     !.attention_mask =
                         IF pad # None /\ \E i \in 1..Len(row) : row[i] = pad[1]
                         THEN [i \in 1..Len(row) |-> IF row[i] # pad[1] THEN 1 ELSE 0]
                         ELSE Ones(Len(row)),
                     !.g.pad_token_id =
                         IF pad = None /\ gen.g.eos_token_id # None
                         THEN gen.g.eos_token_id ELSE pad]
    /\ UNCHANGED <<cfg, ids, past, out, bk, att, calls>>

\* Lines 1556-1564: decoder_start_token_id defaults to bos_token_id.
GenDecoderStart ==
    /\ Statement = "decoder_start_token_id"
    /\ gen' = IF ~Check(Statement, gen.g) THEN Raised("AssertionError: " \o Statement)
              ELSE [gen EXCEPT !.pc = @ + 1,
                       !.g.decoder_start_token_id =
                           IF @ = None THEN gen.g.bos_token_id ELSE @]
    /\ UNCHANGED <<cfg, ids, past, out, bk, att, calls>>

\* Lines 1569-1573: the encoder called on the prompt; its configuration
\* has use_cache False (line 1206).
GenEncoder ==
    /\ Statement = "encoder"
    /\ LET Returned(r) ==
               IF r.err # ""
               THEN /\ gen' = [Raised(r.err) EXCEPT !.encoder_calls = @ + 1]
                    /\ UNCHANGED past
               ELSE /\ gen' = [gen EXCEPT !.pc = @ + 1, !.encoder_calls = @ + 1,
                                       !.enc = <<r.hidden>>]
                    /\ past' = <<<<r.hidden>>, None>>
       IN Returned(JointEncoder_forward([is_decoder |-> FALSE,
                                         num_layers |-> cfg.num_layers],
                                        gen.g.input_ids[1].row, FALSE, FALSE))
    /\ UNCHANGED <<cfg, ids, out, bk, att, calls>>

\* Lines 1548-1554.
effective_batch_size(batch_size, do_sample, num_return_sequences) ==
    IF do_sample THEN batch_size * num_return_sequences ELSE batch_size

effective_batch_mult(do_sample, num_return_sequences) ==
    IF do_sample THEN num_return_sequences ELSE 1

\* Line 1576: whether the prompt and its mask are expanded.
NeedsExpand_BeamsOnly(num_return_sequences, num_beams) == num_beams > 1

NeedsExpand(num_return_sequences, num_beams) == num_return_sequences > 1 \/ num_beams > 1

\* Lines 1578-1588: t.unsqueeze(1).expand(batch_size, n, len).contiguous()
\* .view(rows, len) of a tensor t given as the sequence of its rows.
ExpandView(t, n, rows) ==
    IF Len(t) * n # rows THEN [err |-> "RuntimeError: shape is invalid for input", t |-> <<>>]
    ELSE [err |-> "", t |-> [r \in 1..rows |-> t[((r - 1) \div n) + 1]]]

\* Lines 1604-1610: torch.arange(batch_size).view(-1, 1).repeat(1, n).view(-1).
expanded_batch_idxs(batch_size, n) == [r \in 1..(batch_size * n) |-> (r - 1) \div n]

\* Lines 1576-1616: the prompt and its mask expanded, the decoder's first
\* input filled with decoder_start_token_id, the encoder output expanded.
\* Every item of the batch holds the same prompt; ids follows one row.
GenExpand ==
    /\ Statement = "expand"
    /\ LET batch_size == gen.g.input_ids[1].batch
           do_sample == gen.g.do_sample[1]
           num_beams == gen.g.num_beams[1]
           num_return_sequences == gen.g.num_return_sequences[1]
           ebs == effective_batch_size(batch_size, do_sample, num_return_sequences)
           mult == effective_batch_mult(do_sample, num_return_sequences)
           mask0 == [b \in 1..batch_size |-> [item |-> b - 1, row |-> gen.attention_mask]]
           mask1 == IF NeedsExpand(num_return_sequences, num_beams)
                    THEN ExpandView(mask0, mult * num_beams, ebs * num_beams)
                    ELSE [err |-> "", t |-> mask0]
           input_ids == [r \in 1..(ebs * num_beams) |-> <<gen.g.decoder_start_token_id[1]>>]
           enc0 == [b \in 1..batch_size |-> [item |-> b - 1, hidden |-> gen.enc[1]]]
           enc1 == index_select(enc0, expanded_batch_idxs(batch_size, num_beams * mult))
       IN IF mask1.err # ""
          THEN /\ gen' = Raised(mask1.err)
               /\ UNCHANGED ids
          ELSE /\ gen' = [gen EXCEPT !.pc = @ + 1,
                             !.expanded = <<[input_ids |-> input_ids,
                                             attention_mask |-> mask1.t,
                                             encoder_outputs |-> enc1,
                                             cur_len |-> 1]>>]
               /\ ids' = input_ids[1]
    /\ UNCHANGED <<cfg, past, out, bk, att, calls>>

\* One turn of the loop of GenerationMixin._generate_no_beam_search /
\* _generate_beam_search (lines 1618-1666): stop at max_length, else call
\* the model on the tokens so far, take the next token and stop at eos.
\* With do_sample the token is drawn; in training mode the dropout masks
\* are drawn, and the argmax with them.
GenDecode ==
    /\ Statement = "decode"
    /\ IF Len(ids) >= gen.g.max_length[1]
       THEN /\ gen' = [gen EXCEPT !.pc = 0, !.output = Some(ids)]
            /\ UNCHANGED <<ids, past>>
       ELSE LET model_inputs == prepare_inputs_for_generation(ids, past, gen.attention_mask,
                                                              gen.g.use_cache[1])
                Step(g, r) ==
                    [g EXCEPT !.decoder_calls = @ + 1,
                              !.encoder_calls = @ + r.encoder_ran,
                              !.last = [encoder_outputs |-> model_inputs.encoder_outputs,
                                        had_cache |->
                                            model_inputs.decoder_past_key_value_states # None,
                                        decoder_input |-> r.decoder_input,
                                        input_ids |-> ids]]
                Returned(r) ==
                    IF r.err # ""
                    THEN /\ gen' = Step(Raised(r.err), r)
                         /\ UNCHANGED <<ids, past>>
                    ELSE \E next_token \in 0..(VocabSize - 1) :
                            /\ (~gen.g.do_sample[1] /\ ~cfg.training) =>
                                   next_token = ArgMax(LastRow(r.hidden), cfg.lm)
                            /\ ids' = Append(ids, next_token)
                            /\ past' = IF gen.g.use_cache[1] THEN r.past ELSE past
                            /\ gen' = IF gen.g.eos_token_id # None
                                         /\ next_token = gen.g.eos_token_id[1]
                                      THEN Step([gen EXCEPT !.pc = 0,
                                                    !.output = Some(Append(ids, next_token))], r)
                                      ELSE Step(gen, r)
            IN Returned(VLT5_forward(cfg, None, Some(model_inputs.attention_mask),
                                     Some(model_inputs.encoder_outputs),
                                     model_inputs.decoder_input_ids,
                                     model_inputs.decoder_past_key_value_states,
                                     model_inputs.use_cache))
    /\ UNCHANGED <<cfg, out, bk, att, calls>>

\* generate called once more on the same model with the same arguments.
GenAgain ==
    /\ gen.pc = 0
    /\ gen.run = 1
    /\ gen' = [gen EXCEPT !.pc = 1, !.g = gen.args, !.err = "",
                  !.attention_mask = <<>>, !.encoder_calls = 0, !.decoder_calls = 0,
                  !.output = None, !.run = 2, !.enc = <<>>, !.last = <<>>,
                  !.expanded = <<>>,
                  !.first = <<[err |-> gen.err, output |-> gen.output]>>]
    /\ ids' = <<>>
    /\ past' = <<>>
    /\ UNCHANGED <<cfg, out, bk, att, calls>>

\* VLT5.forward called by the caller itself, with or without encoder
\* outputs and a decoder cache (one this decoder returned for one token).
ModelForward ==
    /\ gen.run = 0 /\ out = Idle
    /\ \E input_ids \in OptionalOf({<<1, 1>>}), attention_mask \in OptionalOf({<<1, 1>>}),
          encoder_outputs \in OptionalOf({<<EncoderStates([enc_len |-> MaxEnc])>>}),
          decoder_input_ids \in {<<0>>, <<0, 1>>}, cached \in BOOLEAN,
          use_cache \in BOOLEAN :
          LET decoder_past_key_value_states ==
                  IF cached THEN Some(DecoderCache(cfg.num_layers, TRUE, 1)) ELSE None
              Returned(r) ==
                  out' = [called |-> TRUE, input_ids |-> input_ids,
                          encoder_outputs |-> encoder_outputs,
                          decoder_input_ids |-> decoder_input_ids,
                          cached |-> cached, use_cache |-> use_cache, r |-> r]
          IN Returned(VLT5_forward(cfg, input_ids, attention_mask, encoder_outputs,
                                   decoder_input_ids, decoder_past_key_value_states,
                                   use_cache))
    /\ UNCHANGED <<cfg, ids, past, gen, bk, att, calls>>

GenerateNext ==
    \/ GenCheck \/ GenAttentionMask \/ GenDecoderStart \/ GenEncoder
    \/ GenExpand \/ GenDecode \/ GenAgain \/ ModelForward

SpecGenerate == GenerateInit /\ [][GenerateNext]_vars

\* A decoding-parameter check failed.
ParameterError == {"AssertionError: " \o c : c \in ParameterChecks}

\* C13: whenever generate ends on a failed decoding-parameter check, the
\* encoder was not called, the decoder was not called and there is no
\* output; and generate never calls the encoder or the decoder with
\* arguments that one of the checks rejects.
C13_ChecksFirst ==
    gen # Idle =>
        /\ gen.err \in ParameterError =>
              /\ gen.encoder_calls = 0
              /\ gen.decoder_calls = 0
              /\ gen.output = None
        /\ (gen.encoder_calls > 0 \/ gen.decoder_calls > 0) =>
              \A c \in ParameterChecks : Check(c, gen.g)

\* generate raised on its last check, the decoder start token, with
\* nothing called.
C13_Witness ==
    /\ gen # Idle
    /\ gen.pc = 0
    /\ gen.err = "AssertionError: decoder_start_token_id"
    /\ gen.encoder_calls = 0

(***************************************************************************)
(* T5PreTrainedModel._shift_right and its use in VLT5.forward.             *)
(***************************************************************************)
IgnoreIndex == -100

ShiftError(e, input_ids) == [err |-> e, shifted_input_ids |-> <<>>, input_ids |-> input_ids]

\* Tensor.masked_fill_ with the mask t == value.
masked_fill_Skipped(t, value, fill) == t

masked_fill(t, value, fill) == [i \in 1..Len(t) |-> IF t[i] = value THEN fill ELSE t[i]]

\* Lines 603-622.  config is [decoder_start_token_id, pad_token_id], each
\* None or given; input_ids has a position.  The result holds the returned
\* tensor and the argument as the call left it.
_shift_right(config, input_ids) ==
    LET decoder_start_token_id == config.decoder_start_token_id
        new_zeros == [i \in 1..Len(input_ids) |-> 0]
        shifted_input_ids ==
            [i \in 1..Len(input_ids) |->
                IF i = 1 THEN decoder_start_token_id[1]
                ELSE IF i >= 2 THEN input_ids[i - 1] ELSE new_zeros[i]]
        Checked(filled) ==
            IF \E i \in 1..Len(filled) : filled[i] < 0
            THEN ShiftError("Verify that labels has only positive values and -100", input_ids)
            ELSE [err |-> "", shifted_input_ids |-> filled, input_ids |-> input_ids]
    IN IF decoder_start_token_id = None
       THEN ShiftError("self.model.config.decoder_start_token_id has to be defined", input_ids)
       ELSE IF config.pad_token_id = None
            THEN ShiftError("self.model.config.pad_token_id has to be defined", input_ids)
       ELSE Checked(masked_fill(shifted_input_ids, IgnoreIndex, config.pad_token_id[1]))

\* VLT5.forward, lines 1329-1331: the decoder's input ids.
DecoderInputIds(config, labels, decoder_input_ids) ==
    IF labels # None /\ decoder_input_ids = None
    THEN _shift_right(config, labels[1])
    ELSE [err |-> "",
          shifted_input_ids |-> IF decoder_input_ids = None THEN <<>> ELSE decoder_input_ids[1],
          input_ids |-> IF labels = None THEN <<>> ELSE labels[1]]

(***************************************************************************)
(* SpecCall: one call of a forward method with arguments a caller can      *)
(* pass.  cfg is the module and the arguments, out what the call did.      *)
(***************************************************************************)
MaxVis == 2
MaxArity == 5

MaxLabels == 3

TokenSeqs == {<<1>>, <<1, 0>>}

LabelValues == {IgnoreIndex, -1, 0, 1}

LabelSeqs == UNION {[1..n -> LabelValues] : n \in 1..MaxLabels}

\* The first n of the tensors k, v, ck, cv, k, ... of a layer's cache.
LayerCache(n, cached) ==
    [i \in 1..n |-> DecoderCache(1, TRUE, cached)[1][((i - 1) % 4) + 1]]

NotCalled == [called |-> FALSE]

CallInit ==
    /\ \/ \E dec \in BOOLEAN, nl \in 0..MaxLayers, i \in OptionalOf(TokenSeqs),
             e \in OptionalOf(TokenSeqs), enc \in BOOLEAN, cached \in 0..2,
             use_cache \in BOOLEAN :
             cfg = [fn |-> "stack", is_decoder |-> dec, num_layers |-> nl,
                    input_ids |-> i, inputs_embeds |-> e, enc |-> enc,
                    cached |-> cached, use_cache |-> use_cache]
       \/ \E nl \in 0..MaxLayers, i \in OptionalOf(TokenSeqs), e \in OptionalOf(TokenSeqs),
             mask \in BOOLEAN, vis \in 0..MaxVis, use_cache \in BOOLEAN :
             /\ (i # None /\ e # None) => i = e
             /\ cfg = [fn |-> "joint", num_layers |-> nl, input_ids |-> i,
                       inputs_embeds |-> e, mask |-> mask, vis |-> vis,
                       use_cache |-> use_cache]
       \/ \E dec \in BOOLEAN, enc \in BOOLEAN, arity \in -1..MaxArity, cached \in 1..2,
             use_cache \in BOOLEAN :
             cfg = [fn |-> "block", is_decoder |-> dec, enc |-> enc, arity |-> arity,
                    cached |-> cached, use_cache |-> use_cache]
       \/ \E dec \in BOOLEAN, cross \in BOOLEAN, arity \in -1..3, use_cache \in BOOLEAN :
             cfg = [fn |-> "attention", is_decoder |-> dec, cross |-> cross,
                    arity |-> arity, use_cache |-> use_cache]
       \/ \E start \in OptionalOf({0, 1}), pad \in OptionalOf({0, 1}),
             labels \in OptionalOf(LabelSeqs), d \in OptionalOf({<<0>>}) :
             cfg = [fn |-> "shift", decoder_start_token_id |-> start, pad_token_id |-> pad,
                    labels |-> labels, decoder_input_ids |-> d]
    /\ out = NotCalled
    /\ ids = <<>> /\ past = <<>>
    /\ bk = Idle /\ att = Idle /\ calls = <<>> /\ gen = Idle

\* The embeddings a caller passes as inputs_embeds.
EmbedsArg(e) == IF e = None THEN None ELSE Some(embed_tokens(e[1]))

StackCall ==
    /\ cfg.fn = "stack" /\ ~out.called
    /\ LET Returned(r) == out' = [called |-> TRUE, r |-> r]
       IN Returned(T5Stack_call(cfg, cfg.input_ids, EmbedsArg(cfg.inputs_embeds),
                     IF cfg.enc THEN Some(EncoderStates([enc_len |-> MaxEnc])) ELSE None,
                     IF cfg.cached = 0 THEN None
                     ELSE Some(DecoderCache(cfg.num_layers, cfg.enc, cfg.cached)),
                     cfg.use_cache))
    /\ UNCHANGED <<cfg, ids, past, bk, att, calls, gen>>

JointCall ==
    /\ cfg.fn = "joint" /\ ~out.called
    /\ LET n == IF cfg.input_ids # None THEN Len(cfg.input_ids[1])
                ELSE IF cfg.inputs_embeds # None THEN Len(cfg.inputs_embeds[1]) ELSE 1
           Returned(r) == out' = [called |-> TRUE, r |-> r]
       IN Returned(JointEncoder_call([is_decoder |-> FALSE, num_layers |-> cfg.num_layers],
                     cfg.input_ids, EmbedsArg(cfg.inputs_embeds),
                     IF cfg.mask THEN Some(Ones(n)) ELSE None,
                     [v \in 1..cfg.vis |-> [kind |-> "vis", pos |-> v]],
                     cfg.use_cache))
    /\ UNCHANGED <<cfg, ids, past, bk, att, calls, gen>>

BlockCall ==
    /\ cfg.fn = "block" /\ ~out.called
    /\ LET with == cfg.arity >= 0
           Returned(r) == out' = [called |-> TRUE, r |-> r]
       IN Returned(T5Block_call([is_decoder |-> cfg.is_decoder,
                                 has_relative_attention_bias |-> TRUE],
                     embed_tokens(<<1>>),
                     get_extended_attention_mask(cfg.is_decoder,
                         Ones(IF with THEN cfg.cached + 1 ELSE 1), 1),
                     IF cfg.enc THEN Some(EncoderStates([enc_len |-> MaxEnc])) ELSE None,
                     IF with THEN Some(LayerCache(cfg.arity, cfg.cached)) ELSE None,
                     cfg.use_cache))
    /\ UNCHANGED <<cfg, ids, past, bk, att, calls, gen>>

AttentionCall ==
    /\ cfg.fn = "attention" /\ ~out.called
    /\ LET with == cfg.arity >= 0
           Returned(r) == out' = [called |-> TRUE, r |-> r]
       IN Returned(T5Attention_call([is_decoder |-> cfg.is_decoder,
                                     has_relative_attention_bias |-> TRUE],
                     embed_tokens(<<1>>), <<>>,
                     IF cfg.cross THEN Some(EncoderStates([enc_len |-> MaxEnc])) ELSE None,
                     IF ~with THEN None
                     ELSE IF cfg.cross THEN Some(SubSeq(LayerCache(cfg.arity + 2, 1), 3, cfg.arity + 2))
                     ELSE Some(LayerCache(cfg.arity, 1)),
                     cfg.use_cache))
    /\ UNCHANGED <<cfg, ids, past, bk, att, calls, gen>>

ShiftCall ==
    /\ cfg.fn = "shift" /\ ~out.called
    /\ LET Returned(r) == /\ out' = [called |-> TRUE, r |-> r]
                          /\ ids' = r.input_ids
       IN Returned(DecoderInputIds(cfg, cfg.labels, cfg.decoder_input_ids))
    /\ UNCHANGED <<cfg, past, bk, att, calls, gen>>

CallNext == StackCall \/ JointCall \/ BlockCall \/ AttentionCall \/ ShiftCall

SpecCall == CallInit /\ [][CallNext]_vars

\* How the caller supplied the input of a stack call.
SuppliedBoth == cfg.input_ids # None /\ cfg.inputs_embeds # None

SuppliedNeither == cfg.input_ids = None /\ cfg.inputs_embeds = None

SuppliedLen == IF cfg.input_ids # None THEN Len(cfg.input_ids[1]) ELSE Len(cfg.inputs_embeds[1])

\* C14: a stack's forward raises when both input_ids and inputs_embeds are
\* supplied and when neither is, and accepts the call when exactly one is,
\* for T5Stack as encoder or decoder and for JointEncoder.  The rest of
\* the call is one the stack takes: no cache, use_cache only on a decoder.
C14_Original ==
    (out.called /\ cfg.fn \in {"stack", "joint"}) =>
        /\ (SuppliedBoth \/ SuppliedNeither) => out.r.err # ""
        /\ (/\ ~SuppliedBoth /\ ~SuppliedNeither
            /\ cfg.fn = "stack" => (cfg.cached = 0 /\ (cfg.is_decoder \/ ~cfg.use_cache))
            /\ cfg.fn = "joint" => (~cfg.use_cache /\ cfg.mask))
           => out.r.err = ""

\* C15: T5Stack.forward with a cache raises unless the input has exactly
\* one position, and then the mask has cached length + 1 positions; with
\* no cache an input of any length >= 1 is accepted.  The cache is one a
\* decoder of the same configuration returned; the stack has a layer, so
\* the cache has a length.
C15_CachedInputLength ==
    (out.called /\ cfg.fn = "stack" /\ ~SuppliedBoth /\ ~SuppliedNeither) =>
        /\ (cfg.cached > 0 /\ SuppliedLen # 1) =>
               /\ out.r.err = "Input shape should be (batch_size, 1) when using past_key_value_sates"
               /\ out.r.hidden = <<>>
        /\ (cfg.cached > 0 /\ SuppliedLen = 1 /\ cfg.is_decoder /\ cfg.num_layers >= 1) =>
               /\ out.r.err = ""
               /\ out.r.mask_seq_length = cfg.cached + 1
               /\ Len(out.r.hidden) = 1
        /\ (cfg.cached = 0 /\ (cfg.is_decoder \/ ~cfg.use_cache)) =>
               /\ out.r.err = ""
               /\ out.r.mask_seq_length = SuppliedLen
               /\ Len(out.r.hidden) = SuppliedLen

\* A decoder of two layers, two cached positions, one new token.
C15_Witness ==
    /\ out.called /\ cfg.fn = "stack" /\ cfg.is_decoder
    /\ cfg.num_layers = 2 /\ cfg.cached = 2 /\ cfg.enc
    /\ cfg.input_ids = Some(<<1>>) /\ cfg.inputs_embeds = None
    /\ out.r.err = "" /\ out.r.mask_seq_length = 3

\* The call asks a stack for a cache, or hands a stack, block or attention
\* one.
CacheRequested ==
    \/ cfg.fn \in {"stack", "joint"} /\ cfg.use_cache
    \/ cfg.fn = "stack" /\ cfg.cached > 0
    \/ cfg.fn \in {"block", "attention"} /\ cfg.arity >= 0

NonDecoder == IF cfg.fn = "joint" THEN TRUE ELSE ~cfg.is_decoder

C17_CacheArity ==
    (out.called /\ cfg.fn = "block" /\ cfg.is_decoder /\ cfg.arity >= 0) =>
        LET expected == IF cfg.enc THEN 4 ELSE 2
            p == LayerCache(cfg.arity, cfg.cached)
        IN IF cfg.arity # expected
           THEN /\ out.r.err = "There should be 2 or 4 past states"
                /\ out.r.tr = <<>> /\ out.r.outputs = <<>>
           ELSE /\ out.r.err = ""
                /\ Len(out.r.tr) = 1
                /\ cfg.use_cache =>
                      LET present == out.r.outputs[2]
                      IN /\ Len(present) = expected
                         /\ SubSeq(present[1], 1, cfg.cached) = p[1]
                         /\ SubSeq(present[2], 1, cfg.cached) = p[2]
                         /\ Len(present[1]) = cfg.cached + 1
                         /\ cfg.enc => (present[3] = p[3] /\ present[4] = p[4])

\* A decoder block with encoder states and a cache of four tensors.
C17_Witness ==
    /\ out.called /\ cfg.fn = "block" /\ cfg.is_decoder /\ cfg.enc
    /\ cfg.arity = 4 /\ cfg.cached = 2 /\ cfg.use_cache
    /\ out.r.err = "" /\ Len(out.r.outputs[2]) = 4

\* A bias entry that is zero and comes from no bucket.
ZeroBias == [b |-> -1, m |-> 0, c |-> 0, sm |-> FALSE]

\* C19: JointEncoder.forward with L text tokens and V visual regions runs
\* the layers over V + L positions, with a bias that is zero wherever a
\* visual position is involved and the bucketed text bias on the text
\* block, and returns the hidden states without error for num_layers >= 1.
C19_Original ==
    (/\ out.called /\ cfg.fn = "joint" /\ cfg.num_layers >= 1
     /\ cfg.input_ids # None /\ cfg.inputs_embeds = None /\ ~cfg.use_cache) =>
        LET L == Len(cfg.input_ids[1])
            V == cfg.vis
            text == compute_bias(FALSE, L, L)
        IN /\ out.r.err = ""
           /\ Len(out.r.hidden) = V + L
           /\ Len(out.r.trace) = cfg.num_layers
           /\ \A l \in 1..Len(out.r.trace) :
                 LET bias == out.r.trace[l].self_scores_bias
                 IN /\ Len(bias) = V + L
                    /\ \A i, j \in 1..(V + L) :
                          bias[i][j].b = IF i <= V \/ j <= V THEN ZeroBias.b
                                         ELSE text[i - V][j - V].b

\* The labels VLT5.forward shifts: given, with no decoder input beside.
ShiftsLabels ==
    out.called /\ cfg.fn = "shift" /\ cfg.labels # None /\ cfg.decoder_input_ids = None

\* C18: right-shifting the labels is fatal when decoder_start_token_id is
\* not configured and fatal when pad_token_id is not; with both configured
\* and labels that are token ids or -100, the result has the labels'
\* length, the start token at position 0, labels[i-1] at position i with
\* every -100 replaced by the pad token, and the labels are left as given.
C18_ShiftRight ==
    ShiftsLabels =>
        LET labels == cfg.labels[1]
            n == Len(labels)
            r == out.r
        IN /\ (cfg.decoder_start_token_id = None \/ cfg.pad_token_id = None) =>
                  r.err # "" /\ r.shifted_input_ids = <<>>
           /\ (/\ cfg.decoder_start_token_id # None /\ cfg.pad_token_id # None
               /\ \A i \in 1..(n - 1) : labels[i] >= 0 \/ labels[i] = IgnoreIndex) =>
                  /\ r.err = ""
                  /\ Len(r.shifted_input_ids) = n
                  /\ r.shifted_input_ids[1] = cfg.decoder_start_token_id[1]
                  /\ \A i \in 2..n :
                        r.shifted_input_ids[i] =
                            IF labels[i - 1] = IgnoreIndex THEN cfg.pad_token_id[1]
                            ELSE labels[i - 1]
           /\ ids = labels

\* Labels with a -100 that is shifted in, start token 0, pad token 1.
C18_Witness ==
    /\ ShiftsLabels
    /\ cfg.labels = Some(<<1, IgnoreIndex, 0>>)
    /\ cfg.decoder_start_token_id = Some(0) /\ cfg.pad_token_id = Some(1)
    /\ out.r.err = "" /\ out.r.shifted_input_ids = <<0, 1, 1>>
    /\ ids = <<1, IgnoreIndex, 0>>

\* C20: greedy determinism.  When generate, called with do_sample=False and
\* num_beams=1, returned a sequence, and was called again on the same model
\* with the same arguments, the second call returns the same sequence, in
\* training mode as in evaluation mode.
C20_Original ==
    (/\ gen # Idle /\ gen.run = 2 /\ gen.pc = 0
     /\ gen.args.do_sample = Some(FALSE) /\ gen.args.num_beams = Some(1)
     /\ gen.first[1].output # None) =>
        /\ gen.err = ""
        /\ gen.output = gen.first[1].output

\* The self-attention term of a layer inside a hidden-state term.
RECURSIVE SelfTerm(_, _)
SelfTerm(h, l) == IF h.kind = "self" /\ h.layer = l THEN h ELSE SelfTerm(h.x, l)

\* C21: in every layer of a decoder pass, uncached over several tokens or
\* cached over one, the bias a query at position i adds to its score on a
\* key j > i holds the large negative mask value, and the query gives
\* weight to the keys 1..i only.  (No key is padded out: the stack builds
\* the mask of ones itself.)
C21_MaskCausality ==
    (OutOK /\ cfg.is_decoder) =>
        \A l \in 1..cfg.num_layers :
            LET bias == out.trace[l].self_scores_bias
                Q == Len(out.hidden)
                K == Len(ids)
            IN /\ Len(bias) = Q
               /\ \A q \in 1..Q :
                     LET i == K - Q + q
                     IN /\ Len(bias[q]) = K
                        /\ \A j \in 1..K : j > i => bias[q][j].m = MaskedValue
                        /\ \A j \in 1..K : j <= i => bias[q][j].m = 0
                        /\ Len(SelfTerm(out.hidden[q], l).ctx) = i

\* An uncached pass over three tokens through two layers, and so with
\* masked keys.
C21_Witness ==
    /\ OutOK /\ cfg.is_decoder /\ ~out.had_past
    /\ cfg.num_layers = 2 /\ Len(out.hidden) = 3
    /\ out.trace[2].self_scores_bias[1][3].m = MaskedValue
    /\ Len(SelfTerm(out.hidden[1], 2).ctx) = 1

\* C22: VLT5.forward calls the encoder exactly when no encoder_outputs are
\* supplied, and with a decoder cache gives the decoder the last token of
\* decoder_input_ids only; in a generate call with a decode step the
\* encoder was called once, by generate before the loop, every decode step
\* is handed that call's output in the pair prepare_inputs_for_generation
\* unpacks, the pair carries it on (with the decoder cache when use_cache
\* is True), and a step with a decoder cache gives the decoder the newest
\* token only.
C22_EncoderOnce ==
    /\ (out # Idle /\ gen # Idle /\ gen.run = 0) =>
          /\ out.r.encoder_ran = (IF out.encoder_outputs = None THEN 1 ELSE 0)
          /\ (out.cached /\ out.r.decoder_input # <<>>) =>
                out.r.decoder_input = LastToken(out.decoder_input_ids)
          /\ (~out.cached /\ out.r.decoder_input # <<>>) =>
                out.r.decoder_input = out.decoder_input_ids
    /\ (gen # Idle /\ gen.run >= 1) =>
          /\ gen.encoder_calls <= 1
          /\ gen.decoder_calls > 0 =>
                /\ gen.encoder_calls = 1
                /\ gen.enc # <<>>
                /\ gen.last.encoder_outputs = gen.enc
                /\ past[1] = gen.enc
                /\ gen.last.had_cache => gen.last.decoder_input = LastToken(gen.last.input_ids)
                /\ gen.last.had_cache <=> (gen.g.use_cache[1] /\ gen.decoder_calls > 1)
                /\ (gen.g.use_cache[1] /\ gen.err = "") => past[2] # None

\* A generate call that took two decode steps on one encoder call and
\* returned three tokens.
C22_Witness ==
    /\ gen # Idle /\ gen.run = 1 /\ gen.pc = 0 /\ gen.err = ""
    /\ gen.decoder_calls = 2 /\ gen.encoder_calls = 1
    /\ gen.output # None /\ Len(gen.output[1]) = 3

(***************************************************************************)
(* SpecLoad: load_tf_weights_in_t5 over a checkpoint of a few variables.   *)
(*                                                                         *)
(* A variable name is its "/"-separated components, each [base, num]: num  *)
(* is the digits re.fullmatch(r"[A-Za-z]+_\d+") splits off, "" when the    *)
(* component does not match.  An object of the model is the path of        *)
(* attribute names and list indices that leads to it.                      *)
(***************************************************************************)
MaxVars == 2

Comp(base) == [base |-> base, num |-> ""]
CompNum(base, num) == [base |-> base, num |-> num]

\* The attributes of the objects of a small T5 model that the loader can
\* reach: an embedding, one encoder block with its self-attention query
\* projection and layer norm, the final layer norm and the output head.
Attrs(pointer) ==
    CASE pointer = <<>> -> {"shared", "encoder", "lm_head"}
      [] pointer = <<"shared">> -> {"weight"}
      [] pointer = <<"lm_head">> -> {"weight"}
      [] pointer = <<"encoder">> -> {"block", "final_layer_norm"}
      [] pointer = <<"encoder", "final_layer_norm">> -> {"weight"}
      [] pointer = <<"encoder", "block", "0">> -> {"layer"}
      [] pointer = <<"encoder", "block", "0", "layer", "0">> -> {"SelfAttention", "layer_norm"}
      [] pointer = <<"encoder", "block", "0", "layer", "0", "layer_norm">> -> {"weight"}
      [] pointer = <<"encoder", "block", "0", "layer", "0", "SelfAttention">> -> {"q"}
      [] pointer = <<"encoder", "block", "0", "layer", "0", "SelfAttention", "q">> -> {"weight"}
      [] OTHER -> {}

\* The indices of a ModuleList.
Indices(pointer) ==
    IF pointer \in {<<"encoder", "block">>, <<"encoder", "block", "0", "layer">>}
    THEN {"0"} ELSE {}

\* The parameters of the model and their shapes (d_model 3, inner
\* dimension 2, vocabulary 2).
ParamShape(pointer) ==
    CASE pointer = <<"shared", "weight">> -> <<2, 3>>
      [] pointer = <<"lm_head", "weight">> -> <<2, 3>>
      [] pointer = <<"encoder", "final_layer_norm", "weight">> -> <<3>>
      [] pointer = <<"encoder", "block", "0", "layer", "0", "layer_norm", "weight">> -> <<3>>
      [] pointer = <<"encoder", "block", "0", "layer", "0", "SelfAttention", "q", "weight">> -> <<2, 3>>
      [] OTHER -> <<>>

Params ==
    {<<"shared", "weight">>, <<"lm_head", "weight">>,
     <<"encoder", "final_layer_norm", "weight">>,
     <<"encoder", "block", "0", "layer", "0", "layer_norm", "weight">>,
     <<"encoder", "block", "0", "layer", "0", "SelfAttention", "q", "weight">>}

\* The variables a checkpoint may hold: [name, shape].
CheckpointVars ==
    {[name |-> <<Comp("shared"), Comp("embedding")>>, shape |-> <<2, 3>>],
     [name |-> <<Comp("encoder"), CompNum("block", "0"), CompNum("layer", "0"),
                 Comp("SelfAttention"), Comp("q")>>, shape |-> <<3, 2>>],
     [name |-> <<Comp("encoder"), Comp("final_layer_norm"), Comp("scale")>>, shape |-> <<3>>],
     [name |-> <<Comp("global_step")>>, shape |-> <<>>],
     [name |-> <<Comp("encoder"), Comp("final_layer_norm"), Comp("scale_slot_v")>>,
      shape |-> <<3>>],
     [name |-> <<Comp("encoder"), Comp("final_layer_norm"), Comp("extra")>>, shape |-> <<3>>],
     [name |-> <<Comp("encoder"), Comp("rms_norm"), Comp("scale")>>, shape |-> <<3>>],
     [name |-> <<Comp("lm_head"), Comp("mystery")>>, shape |-> <<2, 2>>]}

\* Lines 85-88: a component is one of the optimizer's names.
OptimizerNames ==
    {Comp("adam_v"), Comp("adam_m"), Comp("AdamWeightDecayOptimizer"),
     CompNum("AdamWeightDecayOptimizer", "1"), Comp("global_step")}

\* Line 92: "_slot_" in name[-1].
HasSlot(c) == c.base \in {"scale_slot_v", "scale_slot_vc", "kernel_slot_v"}

WeightNames == {"kernel", "scale", "embedding"}

\* np.transpose of an array of the shape.
transpose(shape) == [i \in 1..Len(shape) |-> shape[Len(shape) + 1 - i]]

\* The loop of lines 98-113 from component j on.  w is [pointer, caught,
\* err]: caught once line 108 caught an AttributeError; the continue of
\* line 110 goes on with the next component of the same name.
RECURSIVE Descend(_, _, _)
Descend(name, j, w) ==
    IF j > Len(name) \/ w.err # "" THEN w
    ELSE LET scope_names == name[j]
             Indexed(pointer) ==
                 IF scope_names.num = "" THEN [w EXCEPT !.pointer = pointer]
                 ELSE IF scope_names.num \in Indices(pointer)
                      THEN [w EXCEPT !.pointer = Append(pointer, scope_names.num)]
                 ELSE [w EXCEPT !.err = "IndexError"]
         IN Descend(name, j + 1,
                IF scope_names.base \in WeightNames
                THEN (IF "weight" \in Attrs(w.pointer)
                      THEN Indexed(Append(w.pointer, "weight"))
                      ELSE [w EXCEPT !.err = "AttributeError"])
                ELSE IF scope_names.base \in Attrs(w.pointer)
                     THEN Indexed(Append(w.pointer, scope_names.base))
                ELSE [w EXCEPT !.caught = TRUE])

\* One turn of the loop of lines 81-126 for a variable: what became of it.
LoadVariable(v) ==
    LET name == v.name
        last == name[Len(name)]
        \* Lines 114-126, w what the loop over the components left.
        Assign(w) ==
            LET needsWeight == last.base \notin WeightNames
                pointer == IF needsWeight THEN Append(w.pointer, "weight") ELSE w.pointer
                array == IF last.base # "embedding" THEN transpose(v.shape) ELSE v.shape
            IN IF w.err # "" THEN [outcome |-> "raised", err |-> w.err, caught |-> w.caught,
                                   target |-> <<>>]
               ELSE IF needsWeight /\ "weight" \notin Attrs(w.pointer)
                    THEN [outcome |-> "raised", err |-> "AttributeError", caught |-> w.caught,
                          target |-> <<>>]
               ELSE IF ParamShape(pointer) # array
                    THEN [outcome |-> "raised", err |-> "AssertionError", caught |-> w.caught,
                          target |-> <<>>]
               ELSE [outcome |-> "copied", err |-> "", caught |-> w.caught, target |-> pointer]
    IN IF (\E j \in 1..Len(name) : name[j] \in OptimizerNames) \/ HasSlot(last)
       THEN [outcome |-> "skipped", err |-> "", caught |-> FALSE, target |-> <<>>]
       ELSE Assign(Descend(name, 1, [pointer |-> <<>>, caught |-> FALSE, err |-> ""]))

\* Lines 72-79: the checkpoint's variables; the model as constructed.
LoadInit ==
    /\ \E n \in 1..MaxVars : \E vs \in [1..n -> CheckpointVars] :
          /\ \A a, b \in 1..n : a # b => vs[a] # vs[b]
          /\ cfg = [names |-> vs]
    /\ out = [i |-> 1, tf_weights |-> {cfg.names[k] : k \in 1..Len(cfg.names)},
              data |-> [q \in Params |-> None], done |-> <<>>, err |-> "",
              report |-> None]
    /\ ids = <<>> /\ past = <<>>
    /\ bk = Idle /\ att = Idle /\ calls = <<>> /\ gen = Idle

\* One turn of the loop of line 81.
LoadNext ==
    /\ out.err = "" /\ out.i <= Len(cfg.names)
    /\ LET v == cfg.names[out.i]
           Done(r) ==
               out' = [out EXCEPT
                          !.i = @ + 1,
                          !.done = Append(@, r),
                          !.err = r.err,
                          !.tf_weights = IF r.outcome = "raised" THEN @ ELSE @ \ {v},
                          !.data = IF r.outcome = "copied"
                                   THEN [@ EXCEPT ![r.target] = Some(v)] ELSE @]
       IN Done(LoadVariable(v))
    /\ UNCHANGED <<cfg, ids, past, bk, att, calls, gen>>

\* Line 128: the names left in tf_weights are logged.
LoadReport ==
    /\ out.err = "" /\ out.i > Len(cfg.names) /\ out.report = None
    /\ out' = [out EXCEPT !.report = Some(out.tf_weights)]
    /\ UNCHANGED <<cfg, ids, past, bk, att, calls, gen>>

LoadStep == LoadNext \/ LoadReport

SpecLoad == LoadInit /\ [][LoadStep]_vars

\* The variables of the checkpoint no parameter of the model holds.
NeverCopied ==
    {cfg.names[k] : k \in 1..Len(cfg.names)} \ {out.data[q][1] : q \in {t \in Params : out.data[t] # None}}

\* C23: a variable with a component that matches no attribute (line 108
\* caught the AttributeError) does not make the import raise and is written
\* to no parameter, the import goes on to the end, and the final report
\* lists exactly the variables that were never copied.
C23_Original ==
    /\ \A k \in 1..Len(out.done) :
          out.done[k].caught =>
              /\ out.done[k].outcome = "skipped"
              /\ out.done[k].err = ""
    /\ out.report # None => out.report[1] = NeverCopied

\* C28: in every state of an attention module that computes the position
\* bias, also after prune_heads calls, the bias has as many heads as the
\* module has (n_heads), the head count of its scores.
C28_Original ==
    (att # Idle /\ att.has_relative_attention_bias) => BiasHeadDim(att) = att.n_heads

(***************************************************************************)
(* SpecModel: a T5Model or a VLT5 constructed from the caller's            *)
(* configuration, then set_input_embeddings and _prune_heads called on it. *)
(*                                                                         *)
(* Configurations are objects: heap is the sequence of the configuration   *)
(* objects that exist, a reference is an index into it, 1 the caller's.    *)
(* An embedding table is the number of the table, 0 the one __init__       *)
(* creates.                                                                *)
(***************************************************************************)
MaxTables == 2
MaxModelCalls == 2

\* copy.deepcopy(config): a new object with the same field values.
deepcopy_Alias(heap, ref) == [heap |-> heap, ref |-> ref]

deepcopy(heap, ref) == [heap |-> Append(heap, heap[ref]), ref |-> Len(heap) + 1]

\* The attributes a T5Stack and a JointEncoder have after __init__ (lines
\* 624-636 and 1062-1080).
T5Stack_attributes ==
    {"config", "embed_tokens", "is_decoder", "block", "final_layer_norm", "dropout"}

JointEncoder_attributes == T5Stack_attributes \cup {"model_parallel", "device_map"}

\* T5Stack.__init__ and JointEncoder.__init__ on the configuration object
\* config of the heap: the stack and its blocks' self-attention modules.
NewStack(heap, config, table, joint) ==
    [joint |-> joint, config |-> config, embed_tokens |-> table,
     is_decoder |-> heap[config].is_decoder,
     block |-> [i \in 1..heap[config].num_layers |->
                   NewAttention(heap[config].num_heads, heap[config].d_kv, i = 1)]]

NoModel == [shared |-> -1, encoder |-> <<>>, decoder |-> <<>>]

\* T5Model.__init__ (lines 849-861) and VLT5.__init__ (lines 1199-1215);
\* JointEncoder.__init__ asserts a configuration that is no decoder's.
Model_init(cls, heap0) ==
    LET shared == 0
        e == deepcopy(heap0, 1)
        encoder_config == e.ref
        heap1 == [e.heap EXCEPT ![encoder_config].use_cache = FALSE]
        d == deepcopy(heap1, 1)
        decoder_config == d.ref
        heap2 == [d.heap EXCEPT ![decoder_config].is_decoder = TRUE]
    IN IF cls = "VLT5" /\ heap1[encoder_config].is_decoder
       THEN [err |-> "AssertionError", heap |-> heap1, model |-> NoModel]
       ELSE [err |-> "", heap |-> heap2,
             model |-> [shared |-> shared,
                        encoder |-> NewStack(heap1, encoder_config, shared, cls = "VLT5"),
                        decoder |-> NewStack(heap2, decoder_config, shared, FALSE)]]

\* T5Stack.set_input_embeddings (line 645) and
\* JointEncoder.set_input_embeddings (lines 1082-1084), which goes on to
\* self.visual_embedding.
Stack_set_input_embeddings(stack, new_embeddings) ==
    LET set == [stack EXCEPT !.embed_tokens = new_embeddings]
    IN IF stack.joint /\ "visual_embedding" \notin JointEncoder_attributes
       THEN [err |-> "AttributeError: JointEncoder object has no attribute visual_embedding",
             stack |-> set]
       ELSE [err |-> "", stack |-> set]

\* T5Model.set_input_embeddings (lines 866-869) and
\* VLT5.set_input_embeddings (lines 1220-1223).
set_input_embeddings(model, new_embeddings) ==
    LET m1 == [model EXCEPT !.shared = new_embeddings]
        e == Stack_set_input_embeddings(m1.encoder, new_embeddings)
        m2 == [m1 EXCEPT !.encoder = e.stack]
        d == Stack_set_input_embeddings(m2.decoder, new_embeddings)
    IN IF e.err # "" THEN [err |-> e.err, model |-> m2]
       ELSE [err |-> d.err, model |-> [m2 EXCEPT !.decoder = d.stack]]

\* T5Model._prune_heads, lines 877-883: heads_to_prune is the sequence of
\* the dict's items <<layer, heads>>; the loop from item j on.
RECURSIVE _prune_heads(_, _, _)
_prune_heads(model, heads_to_prune, j) ==
    IF j > Len(heads_to_prune) THEN [err |-> "", model |-> model]
    ELSE LET layer == heads_to_prune[j][1]
             heads == heads_to_prune[j][2]
         IN IF "layer" \notin T5Stack_attributes
            THEN [err |-> "AttributeError: T5Stack object has no attribute layer",
                  model |-> model]
            ELSE IF layer + 1 > Len(model.encoder.block)
                 THEN [err |-> "IndexError", model |-> model]
            ELSE IF "attention" \notin T5Block_attributes
                 THEN [err |-> "AttributeError: T5Block object has no attribute attention",
                       model |-> model]
            ELSE _prune_heads([model EXCEPT !.encoder.block[layer + 1] = prune_heads(@, heads)],
                              heads_to_prune, j + 1)

\* The caller's configuration and the class it constructs.
ModelInit ==
    /\ \E cls \in {"T5Model", "VLT5"}, use_cache \in BOOLEAN, is_decoder \in BOOLEAN,
          nl \in 0..MaxLayers :
          cfg = [cls |-> cls,
                 config |-> [use_cache |-> use_cache, is_decoder |-> is_decoder,
                             num_layers |-> nl, num_heads |-> 2, d_kv |-> 1]]
    /\ out = [pc |-> "new", heap |-> <<cfg.config>>, model |-> NoModel, err |-> "",
              ncalls |-> 0, last |-> [fn |-> ""]]
    /\ ids = <<>> /\ past = <<>>
    /\ bk = Idle /\ att = Idle /\ calls = <<>> /\ gen = Idle

Construct ==
    /\ out.pc = "new"
    /\ LET r == Model_init(cfg.cls, out.heap)
       IN out' = [out EXCEPT !.pc = IF r.err = "" THEN "built" ELSE "failed",
                             !.heap = r.heap, !.model = r.model, !.err = r.err]
    /\ UNCHANGED <<cfg, ids, past, bk, att, calls, gen>>

SetInputEmbeddings ==
    /\ out.pc = "built" /\ out.ncalls < MaxModelCalls
    /\ \E E \in 1..MaxTables :
          LET r == set_input_embeddings(out.model, E)
          IN out' = [out EXCEPT !.model = r.model, !.ncalls = @ + 1,
                                !.last = [fn |-> "set_input_embeddings", E |-> E,
                                          err |-> r.err]]
    /\ UNCHANGED <<cfg, ids, past, bk, att, calls, gen>>

\* The dicts the caller passes: empty, one layer, or two layers.
HeadsToPrune ==
    {<<>>} \cup {<<<<l, h>>>> : l \in 0..(MaxLayers - 1), h \in {{0}, {0, 1}}}
           \cup {<<<<0, {1}>>, <<1, {0}>>>>}

PruneModelHeads ==
    /\ out.pc = "built" /\ out.ncalls < MaxModelCalls /\ cfg.cls = "T5Model"
    /\ \E heads_to_prune \in HeadsToPrune :
          /\ \A j \in 1..Len(heads_to_prune) : heads_to_prune[j][1] < cfg.config.num_layers
          /\ LET r == _prune_heads(out.model, heads_to_prune, 1)
             IN out' = [out EXCEPT !.model = r.model, !.ncalls = @ + 1,
                                   !.last = [fn |-> "_prune_heads",
                                             heads_to_prune |-> heads_to_prune,
                                             before |-> out.model.encoder.block,
                                             err |-> r.err]]
    /\ UNCHANGED <<cfg, ids, past, bk, att, calls, gen>>

ModelNext == Construct \/ SetInputEmbeddings \/ PruneModelHeads

SpecModel == ModelInit /\ [][ModelNext]_vars

\* C24: constructing T5Model or VLT5 leaves the caller's configuration
\* with the field values it had, whether __init__ returns or raises; the
\* encoder's use_cache=False and the decoder's is_decoder=True are set on
\* two other objects, which the stacks hold.
C24_ConfigUnchanged ==
    out.pc \in {"built", "failed"} =>
        /\ out.heap[1] = cfg.config
        /\ out.pc = "built" =>
              /\ out.model.encoder.config # 1
              /\ out.model.decoder.config # 1
              /\ out.model.encoder.config # out.model.decoder.config
              /\ ~out.heap[out.model.encoder.config].use_cache
              /\ out.heap[out.model.decoder.config].is_decoder
              /\ out.model.decoder.is_decoder

\* A VLT5 built from a configuration with use_cache True and is_decoder
\* False: both overrides change a value.
C24_Witness ==
    /\ out.pc = "built" /\ cfg.cls = "VLT5"
    /\ cfg.config.use_cache /\ ~cfg.config.is_decoder
    /\ out.heap[1].use_cache /\ ~out.heap[1].is_decoder
    /\ Len(out.heap) = 3

\* C27: T5Model._prune_heads({layer: heads}) prunes the listed heads from
\* the attention of each listed encoder layer and leaves the other layers
\* as they were.
C27_Original ==
    (out.pc = "built" /\ out.last.fn = "_prune_heads") =>
        LET d == out.last.heads_to_prune
            listed == {d[j][1] : j \in 1..Len(d)}
        IN /\ out.last.err = ""
           /\ \A j \in 1..Len(d) :
                 out.model.encoder.block[d[j][1] + 1] =
                     prune_heads(out.last.before[d[j][1] + 1], d[j][2])
           /\ \A l \in 0..(Len(out.model.encoder.block) - 1) :
                 l \notin listed => out.model.encoder.block[l + 1] = out.last.before[l + 1]

\* C29: after any call of set_input_embeddings on T5Model or VLT5, returned
\* or raised, model.shared, encoder.embed_tokens and decoder.embed_tokens
\* are the same table.
C29_Original ==
    out.pc = "built" =>
        /\ out.model.encoder.embed_tokens = out.model.shared
        /\ out.model.decoder.embed_tokens = out.model.shared

\* C25: a decoder block called with a cache of past key/value states has
\* its cross-attention compute the position-bias row of the newest query
\* for the query length that is the self-attention key length, cached plus
\* new positions, whether use_cache is set or not; the length of the
\* cross-attention cache plays no part.
C25_Original ==
    (/\ out.called /\ cfg.fn = "block"
     /\ cfg.is_decoder /\ cfg.enc /\ cfg.arity = 4) =>
        /\ out.r.err = ""
        /\ out.r.tr[1].cross_computed
        /\ out.r.tr[1].cross_scores_bias =
               LastQueryRow(compute_bias(TRUE, cfg.cached + 1, MaxEnc))

(***************************************************************************)
(* SpecVisual: a VisualEmbedding constructed with its three flags and      *)
(* called on region features and boxes.  A tensor is its shape, a          *)
(* sequence of dimension sizes.                                            *)
(***************************************************************************)
MaxBatch == 2
MaxBoxes == 2
MaxDModel == 2
FeatLinearIn == 256
BoxCoords == 4

VisError(e) == [err |-> e, shape |-> <<>>]

\* nn.Linear(in_features, out_features) applied to a tensor.
Linear(in_features, out_features, x) ==
    IF x[Len(x)] # in_features THEN VisError("RuntimeError: shapes cannot be multiplied")
    ELSE [err |-> "", shape |-> [x EXCEPT ![Len(x)] = out_features]]

\* torch.cat((a, b), dim): dim is 0-based.
cat(a, b, dim) ==
    IF Len(a) # Len(b) \/ \E i \in 1..Len(a) : i # dim + 1 /\ a[i] # b[i]
    THEN VisError("RuntimeError: Sizes of tensors must match")
    ELSE [err |-> "", shape |-> [a EXCEPT ![dim + 1] = a[dim + 1] + b[dim + 1]]]

\* VisualEmbedding.__init__, lines 980-1010: the sub-modules created and
\* the input width of the feature projection.
VisualEmbedding_init(config, use_vis_pos, use_vis_layer_norm, individual_vis_layer_norm) ==
    [d_model |-> config.d_model, pos_dim |-> config.pos_dim,
     use_vis_pos |-> use_vis_pos, use_vis_layer_norm |-> use_vis_layer_norm,
     individual_vis_layer_norm |-> individual_vis_layer_norm,
     feat_in |-> IF individual_vis_layer_norm THEN config.feat_dim ELSE FeatLinearIn,
     attrs |-> {"feat_embedding"}
               \cup (IF ~individual_vis_layer_norm \/ use_vis_pos
                     THEN {"absolute_vis_pos_embedding"} ELSE {})
               \cup (IF ~individual_vis_layer_norm /\ use_vis_layer_norm
                     THEN {"layer_norm"} ELSE {})]

\* get_area(pos).unsqueeze(2), lines 1023-1025 and 1047.
get_area(pos) == <<pos[1], pos[2], 1>>

\* VisualEmbedding.forward, lines 1040-1058; layer norms keep the shape.
VisualEmbedding_forward(V, feats, pos) ==
    LET feat_embedding == Linear(V.feat_in, V.d_model, feats)
        area == get_area(pos)
        pos5 == cat(pos, area, 2)
        Positioned(p) ==
            IF p.err # "" THEN p
            ELSE IF "absolute_vis_pos_embedding" \notin V.attrs
            THEN VisError("AttributeError: VisualEmbedding object has no attribute absolute_vis_pos_embedding")
            ELSE Linear(V.pos_dim + 1, V.d_model, p.shape)
        Joined(f, a) ==
            IF f.err # "" THEN f
            ELSE IF a.err # "" THEN a
            ELSE cat(f.shape, a.shape, 1)
    IN Joined(feat_embedding, Positioned(pos5))

\* The feature widths of the configuration.
FeatDims == {FeatLinearIn, 2 * FeatLinearIn}

VisualInit ==
    /\ \E use_vis_pos \in BOOLEAN, use_vis_layer_norm \in BOOLEAN,
          individual_vis_layer_norm \in BOOLEAN, B \in 1..MaxBatch, N \in 1..MaxBoxes,
          feat_dim \in FeatDims, d_model \in 1..MaxDModel :
          cfg = [config |-> [feat_dim |-> feat_dim, pos_dim |-> BoxCoords,
                             d_model |-> d_model],
                 use_vis_pos |-> use_vis_pos, use_vis_layer_norm |-> use_vis_layer_norm,
                 individual_vis_layer_norm |-> individual_vis_layer_norm,
                 B |-> B, N |-> N]
    /\ out = [pc |-> "new"]
    /\ ids = <<>> /\ past = <<>>
    /\ bk = Idle /\ att = Idle /\ calls = <<>> /\ gen = Idle

VisualConstruct ==
    /\ out.pc = "new"
    /\ out' = [pc |-> "built",
               module |-> VisualEmbedding_init(cfg.config, cfg.use_vis_pos,
                              cfg.use_vis_layer_norm, cfg.individual_vis_layer_norm)]
    /\ UNCHANGED <<cfg, ids, past, bk, att, calls, gen>>

VisualForward ==
    /\ out.pc = "built"
    /\ out' = [pc |-> "forward", module |-> out.module,
               r |-> VisualEmbedding_forward(out.module,
                         <<cfg.B, cfg.N, cfg.config.feat_dim>>,
                         <<cfg.B, cfg.N, BoxCoords>>)]
    /\ UNCHANGED <<cfg, ids, past, bk, att, calls, gen>>

VisualNext == VisualConstruct \/ VisualForward

SpecVisual == VisualInit /\ [][VisualNext]_vars

\* C26: VisualEmbedding.forward on feats [B, N, feat_dim] and pos
\* [B, N, 4] returns a tensor of shape [B, N, d_model], one embedded token
\* per region, for every combination of the three flags.
C26_Original ==
    out.pc = "forward" =>
        /\ out.r.err = ""
        /\ out.r.shape = <<cfg.B, cfg.N, cfg.config.d_model>>

\* C30: whenever generate reaches its decoding routine, for the batch
\* size, num_beams, num_return_sequences and do_sample of the call, the
\* decoder input ids, the expanded encoder output and the attention mask
\* have effective_batch_size * num_beams rows; every row of the decoder
\* input is the single token decoder_start_token_id (bos_token_id when
\* that is unset) with cur_len 1; row r of the expanded encoder output is
\* the encoding of batch item floor(r / (num_beams * effective_batch_mult)).
C30_Expansion ==
    gen.expanded # <<>> =>
        LET a == gen.args
            e == gen.expanded[1]
            batch_size == IF a.input_ids = None THEN 1 ELSE a.input_ids[1].batch
            num_beams == a.num_beams[1]
            sampled == a.do_sample[1]
            returned == a.num_return_sequences[1]
            rows == (IF sampled THEN batch_size * returned ELSE batch_size) * num_beams
            per == num_beams * (IF sampled THEN returned ELSE 1)
            start == IF a.decoder_start_token_id # None THEN a.decoder_start_token_id[1]
                     ELSE a.bos_token_id[1]
        IN /\ Len(e.input_ids) = rows
           /\ \A r \in 1..rows : e.input_ids[r] = <<start>>
           /\ e.cur_len = 1
           /\ Len(e.encoder_outputs) = rows
           /\ \A r \in 1..rows :
                 e.encoder_outputs[r] = [item |-> (r - 1) \div per, hidden |-> gen.enc[1]]
           /\ Len(e.attention_mask) = rows
           /\ \A r \in 1..rows : e.attention_mask[r].item = (r - 1) \div per

\* A batch of two prompts decoded with two beams: four rows, the third one
\* of the second prompt.
C30_Witness ==
    /\ gen.expanded # <<>>
    /\ gen.args.input_ids # None /\ gen.args.input_ids[1].batch = 2
    /\ gen.args.num_beams[1] = 2
    /\ Len(gen.expanded[1].encoder_outputs) = 4
    /\ gen.expanded[1].encoder_outputs[3].item = 1

====
